---------------------------- MODULE Spec2Model ----------------------------
(***************************************************************************)
(* Verification model of the stellar-insights backend:                     *)
(*   - the cache-aside helper (backend/src/cache/helpers.rs),              *)
(*   - the ingestion cursor and payment tables (backend/src/database.rs),  *)
(*   - the background synchronisation loop (backend/src/main.rs).          *)
(* Strings that the code builds or inspects character by character (cache  *)
(* keys) are sequences of one-character strings.                           *)
(***************************************************************************)
EXTENDS Integers, Sequences, FiniteSets, TLC

(***************************************************************************)
(* Bounds of the model.                                                    *)
(***************************************************************************)
MaxTtl == 2
MaxLimit == 1
HashBits == 12
MaxBuilt == 2
MaxClock == 2
MaxLedger == 2
MaxPayments == 3
MaxTop == 2
MaxHour == 2
MaxRetry == 1
MaxRuns == 2

VARIABLES
    cacheStore,   \* cache backend content: set of [key, value, ttl]
    cq,           \* cq[c]: the cached_query call of caller c
    built,        \* build_param_cache_key calls made: sequence of [prefix, params, key]
    ingestion_state, \* table ingestion_state: set of [task_name, last_cursor, updated_at]
    payments,     \* table payments: sequence of rows, in rowid order
    now,          \* logical clock behind Utc::now(): advances with every cursor write
    save,         \* save[p]: the save_payments call of task p
    cursorRead,   \* the last get_ingestion_cursor call: [task, result]
    lastSet,      \* history: lastSet[t] = the position last stored for task t
    firstInserted,\* history: the records whose INSERT was the first executed for their id
    run,          \* run[r]: the sync_all_metrics execution of runner r
    failedFrom,   \* history: cursor values from which a run failed after storing records
    mainPc,       \* position of main()
    taskPc,       \* position of the spawned sync_task
    tickReady,    \* the interval's next tick has elapsed
    shutdownSent, \* the shutdown broadcast is in sync_task's receiver
    signalAt,     \* history: where sync_task stood when the shutdown was broadcast
    lastCycleFailed, \* history: the loop's last returned cycle failed
    vcall,        \* the validate_corridor_filters call: [pc, args, result]
    analytics,    \* the last get_muxed_analytics call and its MuxedAccountAnalytics
    aggregation_jobs, \* table aggregation_jobs: the row of each job_id
    aggCall,      \* history: the last aggregation-job call and whether it changed a row
    hourly_corridor_metrics, \* table hourly_corridor_metrics: set of rows
    lastAggregate, \* history: the last aggregate run: its range, the payments then, runs since they changed
    anchors,      \* table anchors: the row of each anchor id
    anchor_metrics_history, \* table anchor_metrics_history: sequence of rows, in insertion order
    anchorCall,   \* history: the last anchor call, its arguments and whether it returned Ok
    assets,       \* table assets: set of rows
    assetCall,    \* the last asset call: its arguments and its result
    api_keys,     \* table api_keys: the row of each key id
    apiNow,       \* logical clock behind Utc::now() in the API-key operations
    keyCall,      \* the last API-key call: its arguments and its result
    rot           \* rot[c]: the rotate_api_key call of caller c

cacheVars == <<cacheStore, cq>>
keyVars == <<built>>
dbVars == <<ingestion_state, payments, now, save, cursorRead, lastSet, firstInserted>>
mainVars == <<run, failedFrom, mainPc, taskPc, tickReady, shutdownSent, signalAt,
             lastCycleFailed>>
valVars == <<vcall>>
muxVars == <<analytics>>
aggVars == <<aggregation_jobs, aggCall>>
hourlyVars == <<hourly_corridor_metrics, lastAggregate>>
anchorVars == <<anchors, anchor_metrics_history, anchorCall>>
assetVars == <<assets, assetCall>>
apiVars == <<api_keys, apiNow, keyCall, rot>>
restVars == <<valVars, muxVars, aggVars, hourlyVars, anchorVars, assetVars, apiVars>>
vars == <<cacheStore, cq, built, ingestion_state, payments, now, save, cursorRead,
          lastSet, firstInserted, run, failedFrom, mainPc, taskPc, tickReady,
          shutdownSent, signalAt, lastCycleFailed, vcall, analytics,
          aggregation_jobs, aggCall, hourly_corridor_metrics, lastAggregate,
          anchors, anchor_metrics_history, anchorCall, assets, assetCall,
          api_keys, apiNow, keyCall, rot>>

(***************************************************************************)
(* build_param_cache_key / calculate_hash (cache/helpers.rs 54-67)         *)
(***************************************************************************)
\* The hash is computed at a reduced width (the code's is 64 bits).
HashModulus == 2 ^ HashBits

\* ASCII codes of the characters that occur in serialized parameters.
Ascii(ch) ==
    CASE ch = "{" -> 123 [] ch = "}" -> 125 [] ch = "\"" -> 34
      [] ch = ":" -> 58  [] ch = "," -> 44
      [] ch = "0" -> 48  [] ch = "1" -> 49  [] ch = "2" -> 50 [] ch = "3" -> 51
      [] ch = "4" -> 52  [] ch = "5" -> 53  [] ch = "6" -> 54 [] ch = "7" -> 55
      [] ch = "8" -> 56  [] ch = "9" -> 57
      [] ch = "l" -> 108 [] ch = "i" -> 105 [] ch = "m" -> 109 [] ch = "t" -> 116
      [] ch = "o" -> 111 [] ch = "f" -> 102 [] ch = "s" -> 115 [] ch = "e" -> 101
      [] ch = "T" -> 84  [] ch = "L" -> 76  [] ch = "P" -> 80  [] ch = "a" -> 97
      [] ch = "r" -> 114 [] ch = "Q" -> 81  [] ch = "u" -> 117 [] ch = "y" -> 121
      [] OTHER -> 63

DecDigits == <<"0", "1", "2", "3", "4", "5", "6", "7", "8", "9">>
HexDigits == <<"0", "1", "2", "3", "4", "5", "6", "7", "8", "9",
               "a", "b", "c", "d", "e", "f">>

RECURSIVE ToDec(_)
\* Display of a non-negative i64 (serde_json integer output).
ToDec(n) == IF n < 10 THEN <<DecDigits[n + 1]>>
            ELSE ToDec(n \div 10) \o <<DecDigits[(n % 10) + 1]>>

RECURSIVE ToHex(_)
\* format!("{:x}", n): lower-case hexadecimal, no padding, no prefix.
ToHex(n) == IF n < 16 THEN <<HexDigits[n + 1]>>
            ELSE ToHex(n \div 16) \o <<HexDigits[(n % 16) + 1]>>

\* The parameter objects P: Serialize handed to build_param_cache_key.  Two
\* Rust types with the same fields (TestParams of the unit test, and a second
\* query type) and one value serde_json cannot serialize (to_string is Err).
ParamTypes == {"TestParams", "ListQuery"}
ParamObjects ==
    [type : ParamTypes, limit : 0..MaxLimit, offset : 0..MaxLimit, serializable : {TRUE}]
    \cup {[type |-> "BadMap", limit |-> 0, offset |-> 0, serializable |-> FALSE]}

\* serde_json::to_string(value).unwrap_or_default(): the JSON text of the
\* fields in declaration order; the type name is not part of it; a value
\* that fails to serialize gives the empty string.
ToJson(value) ==
    IF ~value.serializable THEN <<>>
    ELSE <<"{", "\"", "l", "i", "m", "i", "t", "\"", ":">> \o ToDec(value.limit)
         \o <<",", "\"", "o", "f", "f", "s", "e", "t", "\"", ":">> \o ToDec(value.offset)
         \o <<"}">>

\* DefaultHasher::new(): SipHash with the fixed keys (0, 0), no random seed.
DefaultHasherNew == [k0 |-> 0, k1 |-> 0]

RECURSIVE HashBytes(_, _)
\* Hasher::write over the bytes of a string, at the model's hash width.
HashBytes(h, bytes) ==
    IF bytes = <<>> THEN h
    ELSE HashBytes((h * 33 + Ascii(Head(bytes))) % HashModulus, Tail(bytes))

\* <str as Hash>::hash: the bytes of the string, then the 0xff terminator.
HashStr(hasher, s) ==
    (HashBytes((hasher.k0 * 31 + hasher.k1 + 5381) % HashModulus, s) * 33 + 255)
        % HashModulus

\* A hash of the value itself (its type name and fields) instead of its JSON.
calculate_hash_of_debug(value) ==
    ToHex(HashStr(DefaultHasherNew,
                  (IF value.type = "TestParams" THEN <<"T">>
                   ELSE IF value.type = "ListQuery" THEN <<"L">> ELSE <<"P">>)
                  \o ToJson(value)))

calculate_hash(value) == ToHex(HashStr(DefaultHasherNew, ToJson(value)))

build_param_cache_key(key_prefix, params) ==
    key_prefix \o <<":">> \o calculate_hash(params)

KeyPrefixes == {<<"a">>, <<"a", ":", "l">>}

\* One call build_param_cache_key(key_prefix, params); its result is recorded.
BuildParamCacheKey(key_prefix, params) ==
    /\ Len(built) < MaxBuilt
    /\ built' = Append(built, [prefix |-> key_prefix, params |-> params,
                               key |-> build_param_cache_key(key_prefix, params)])
    /\ UNCHANGED <<cacheVars, dbVars, mainVars>>
    /\ UNCHANGED restVars

(***************************************************************************)
(* The cache backend (CacheManager: get and set, both fallible).           *)
(***************************************************************************)
Values == {"v1", "v2"}
Ttls == 1..MaxTtl
Callers == {"c1", "c2"}
RawKeys == {<<"k">>}
CallParams == {[type |-> "TestParams", limit |-> 0, offset |-> 0, serializable |-> TRUE]}

\* Outcomes of cache.get::<T>(key): Err, Ok(None) or Ok(Some(stored value)).
CacheGet(store, key) ==
    {[kind |-> "err", value |-> "none"]}
    \cup (IF \E e \in store : e.key = key
          THEN {[kind |-> "some", value |-> e.value] : e \in {x \in store : x.key = key}}
          ELSE {[kind |-> "none", value |-> "none"]})

\* Outcomes of cache.set(key, value, ttl): stored (replacing the key's entry),
\* or failed with the store unchanged.
CacheSet(store, key, value, ttl) ==
    {[ok |-> TRUE,
      store |-> {e \in store : e.key # key}
                \cup {[key |-> key, value |-> value, ttl |-> ttl]}],
     [ok |-> FALSE, store |-> store]}

(***************************************************************************)
(* cached_query (cache/helpers.rs 7-33)                                    *)
(***************************************************************************)
Pending == [kind |-> "pending", value |-> "none", error |-> "none"]
Ok(v) == [kind |-> "ok", value |-> v, error |-> "none"]
Err(e) == [kind |-> "err", value |-> "none", error |-> e]

\* A get failure handled as a miss (.unwrap_or(None) instead of `?`).
CachedQueryAfterGetErrAsMiss(got) ==
    IF got.kind = "some" THEN [pc |-> "done", result |-> Ok(got.value)]
    ELSE [pc |-> "query", result |-> Pending]

\* The early return on a hit left out: the producer runs on every call.
CachedQueryAfterGetNoEarlyReturn(got) ==
    IF got.kind = "err" THEN [pc |-> "done", result |-> Err("cache_get")]
    ELSE [pc |-> "query", result |-> Pending]

\* Lines 18-23: `cache.get::<T>(key).await?`, the hit returns at once.
CachedQueryAfterGet(got) ==
    IF got.kind = "err" THEN [pc |-> "done", result |-> Err("cache_get")]
    ELSE IF got.kind = "some" THEN [pc |-> "done", result |-> Ok(got.value)]
    ELSE [pc |-> "query", result |-> Pending]

\* A failed producer treated as a value to cache.
CachedQueryAfterQueryCachesErr(q) == [pc |-> "set", result |-> Pending]

\* Line 25: `query_fn().await?`.
CachedQueryAfterQuery(q) ==
    IF q.kind = "err" THEN [pc |-> "done", result |-> Err("query")]
    ELSE [pc |-> "set", result |-> Pending]

\* The write made with a fixed ttl instead of the caller's.
CachedQuerySetArgsFixedTtl(key, value, ttl) == [key |-> key, value |-> value, ttl |-> 1]

\* Line 28: the arguments of cache.set.
CachedQuerySetArgs(key, value, ttl) == [key |-> key, value |-> value, ttl |-> ttl]

\* The write's error propagated (`cache.set(..).await?`).
CachedQueryAfterSetPropagate(setOk, value) ==
    IF setOk THEN Ok(value) ELSE Err("cache_set")

\* Lines 28-32: a failed write is logged; the result is returned either way.
CachedQueryAfterSet(setOk, value) == Ok(value)

\* A caller's call: where it stands (pc), its arguments, what cache.get gave
\* (got, cached), what the producer gave (produced) and how often it ran, the
\* cache.set calls made (sets) and how the last ended (setOk), and the result.
IdleCall == [pc |-> "idle", key |-> <<>>, ttl |-> 0, got |-> "unread",
             cached |-> "none", produced |-> Pending, producerCalls |-> 0,
             sets |-> <<>>, setOk |-> "unset", result |-> Pending]

\* Entry of cached_query(cache, key, ttl, query_fn).
CachedQueryCall(c, key, ttl) ==
    /\ cq[c].pc = "idle"
    /\ cq' = [cq EXCEPT ![c] = [IdleCall EXCEPT !.pc = "get", !.key = key, !.ttl = ttl]]
    /\ UNCHANGED <<cacheStore, built, dbVars, mainVars>>
    /\ UNCHANGED restVars

\* cached_query_with_params (lines 36-51): the key is built from the params.
CachedQueryWithParamsCall(c, key_prefix, params, ttl) ==
    /\ cq[c].pc = "idle"
    /\ cq' = [cq EXCEPT ![c] = [IdleCall EXCEPT !.pc = "get",
                                   !.key = build_param_cache_key(key_prefix, params),
                                   !.ttl = ttl]]
    /\ UNCHANGED <<cacheStore, built, dbVars, mainVars>>
    /\ UNCHANGED restVars

\* Line 18: the read of the cache and what follows from its outcome.
CachedQueryGet(c) ==
    /\ cq[c].pc = "get"
    /\ \E got \in CacheGet(cacheStore, cq[c].key) :
         LET after == CachedQueryAfterGet(got)
         IN cq' = [cq EXCEPT ![c].pc = after.pc, ![c].got = got.kind,
                             ![c].cached = got.value,
                             ![c].result = after.result]
    /\ UNCHANGED <<cacheStore, built, dbVars, mainVars>>
    /\ UNCHANGED restVars

\* Line 25: the producer runs; it yields a value or fails.
CachedQueryProduce(c) ==
    /\ cq[c].pc = "query"
    /\ \E q \in {Ok(v) : v \in Values} \cup {Err("query")} :
         LET after == CachedQueryAfterQuery(q)
         IN cq' = [cq EXCEPT ![c].pc = after.pc, ![c].produced = q,
                             ![c].producerCalls = @ + 1,
                             ![c].result = after.result]
    /\ UNCHANGED <<cacheStore, built, dbVars, mainVars>>
    /\ UNCHANGED restVars

\* The write kept from replacing an entry: the first write of a key stays.
CachedQuerySetIfAbsent(c) ==
    /\ cq[c].pc = "set"
    /\ LET args == CachedQuerySetArgs(cq[c].key, cq[c].produced.value, cq[c].ttl)
       IN \E out \in CacheSet(cacheStore, args.key, args.value, args.ttl) :
            /\ cacheStore' = IF \E e \in cacheStore : e.key = args.key
                             THEN cacheStore ELSE out.store
            /\ cq' = [cq EXCEPT ![c].pc = "done",
                                ![c].sets = Append(@, args),
                                ![c].setOk = IF out.ok THEN "ok" ELSE "failed",
                                ![c].result = CachedQueryAfterSet(out.ok, cq[c].produced.value)]
    /\ UNCHANGED <<built, dbVars, mainVars>>
    /\ UNCHANGED restVars

\* Lines 28-32: the best-effort write and the return.
CachedQuerySet(c) ==
    /\ cq[c].pc = "set"
    /\ LET args == CachedQuerySetArgs(cq[c].key, cq[c].produced.value, cq[c].ttl)
       IN \E out \in CacheSet(cacheStore, args.key, args.value, args.ttl) :
            /\ cacheStore' = out.store
            /\ cq' = [cq EXCEPT ![c].pc = "done",
                                ![c].sets = Append(@, args),
                                ![c].setOk = IF out.ok THEN "ok" ELSE "failed",
                                ![c].result = CachedQueryAfterSet(out.ok, cq[c].produced.value)]
    /\ UNCHANGED <<built, dbVars, mainVars>>
    /\ UNCHANGED restVars

\* The caller takes the result; the caller may call again.
CachedQueryReturn(c) ==
    /\ cq[c].pc = "done"
    /\ cq' = [cq EXCEPT ![c] = IdleCall]
    /\ UNCHANGED <<cacheStore, built, dbVars, mainVars>>
    /\ UNCHANGED restVars

(***************************************************************************)
(* Ingestion cursor and payments tables (database.rs 985-1048)             *)
(***************************************************************************)
\* The tasks that share the Arc<Database>: main() and the spawned sync_task.
Procs == {"main", "sync_task"}
Tasks == {"payments", "trades"}
\* Cursor positions: the opaque paging token after the n-th ledger record.
Positions == 0..MaxLedger
\* Positions handed to update_ingestion_cursor by a direct caller.
SamplePositions == {1, 2}

\* A PaymentRecord (models::PaymentRecord as bound in save_payments).
Payment(id, source, amount) ==
    [id |-> id, transaction_hash |-> "tx", source_account |-> source,
     destination_account |-> "GDEST", asset_type |-> "native", asset_code |-> "",
     asset_issuer |-> "", amount |-> amount, created_at |-> id]

\* The remote ledger: record n has id n.
LedgerRecord(n) == Payment(n, "GSRC", 10)
Ledger == [n \in 1..MaxLedger |-> LedgerRecord(n)]

\* Batches handed to save_payments by a direct caller: a replay of the
\* ledger, a record with a known id and other content, the same id twice.
SampleBatches ==
    {<<LedgerRecord(1)>>,
     <<Payment(1, "GOTHER", 20), LedgerRecord(2)>>,
     <<LedgerRecord(2), Payment(2, "GOTHER", 20)>>}

NoCursor == [some |-> FALSE, cursor |-> 0]
SomeCursor(c) == [some |-> TRUE, cursor |-> c]

\* SELECT * FROM ingestion_state WHERE task_name = $1, fetch_optional, then
\* state.map(|s| s.last_cursor).
get_ingestion_cursor(state, task_name) ==
    IF \E s \in state : s.task_name = task_name
    THEN SomeCursor((CHOOSE s \in state : s.task_name = task_name).last_cursor)
    ELSE NoCursor

\* The upsert written with ON CONFLICT DO NOTHING: an existing row is kept.
update_ingestion_cursor_do_nothing(state, task_name, last_cursor, ts) ==
    IF \E s \in state : s.task_name = task_name THEN state
    ELSE state \cup {[task_name |-> task_name, last_cursor |-> last_cursor,
                      updated_at |-> ts]}

\* An upsert whose DO UPDATE is not held to the conflicting row: every stored
\* row takes the new cursor.
update_ingestion_cursor_every_task(state, task_name, last_cursor, ts) ==
    {[s EXCEPT !.last_cursor = last_cursor, !.updated_at = ts] :
        s \in {r \in state : r.task_name # task_name}}
    \cup {[task_name |-> task_name, last_cursor |-> last_cursor, updated_at |-> ts]}

\* INSERT ... ON CONFLICT (task_name) DO UPDATE SET last_cursor, updated_at.
update_ingestion_cursor(state, task_name, last_cursor, ts) ==
    {s \in state : s.task_name # task_name}
    \cup {[task_name |-> task_name, last_cursor |-> last_cursor, updated_at |-> ts]}

HasId(rows, id) == \E k \in DOMAIN rows : rows[k].id = id

\* INSERT OR REPLACE: the row of a known id is overwritten.
InsertOrReplacePayment(rows, payment) ==
    [rows |-> IF HasId(rows, payment.id)
              THEN [k \in DOMAIN rows |->
                       IF rows[k].id = payment.id THEN payment ELSE rows[k]]
              ELSE Append(rows, payment),
     error |-> "none"]

\* A plain INSERT on a table without the key: every record is appended.
InsertPaymentNoKey(rows, payment) ==
    [rows |-> Append(rows, payment), error |-> "none"]

\* INSERT INTO payments ... ON CONFLICT (id) DO NOTHING: a known id leaves
\* the table as it is and is no error.
InsertPayment(rows, payment) ==
    [rows |-> IF HasId(rows, payment.id) THEN rows ELSE Append(rows, payment),
     error |-> "none"]

\* No get_ingestion_cursor result is held (none made, or the task's row has
\* been written since).
NoRead == [task |-> "none", result |-> NoCursor]

\* An execution of sync_all_metrics: where it stands (pc), the cursor it read
\* (start), the position returned with its batch (next), the records its
\* save_payments stored (stored), the step that failed it (why), whether it
\* wrote the cursor (wrote), whether another execution wrote the cursor after
\* this one read it (othersWrote), and whether an earlier run failed from the
\* same cursor value after storing records (retry).
IdleRun == [pc |-> "idle", start |-> NoCursor, next |-> 0, stored |-> 0,
            why |-> "none", wrote |-> FALSE, othersWrote |-> FALSE,
            retry |-> FALSE]

IdleSave == [pc |-> "idle", todo |-> <<>>, stored |-> 0, error |-> "none"]

\* get_ingestion_cursor(task_name) called by p (the read succeeds).
GetIngestionCursor(task_name) ==
    /\ cursorRead' = [task |-> task_name,
                      result |-> get_ingestion_cursor(ingestion_state, task_name)]
    /\ UNCHANGED <<ingestion_state, payments, now, save, lastSet, firstInserted>>
    /\ UNCHANGED <<cacheVars, keyVars, mainVars>>
    /\ UNCHANGED restVars

\* The effect of one successful execution of the upsert statement.
CursorWritten(task_name, last_cursor) ==
    /\ now < MaxClock
    /\ now' = now + 1
    /\ ingestion_state' =
          update_ingestion_cursor(ingestion_state, task_name, last_cursor, now + 1)
    /\ lastSet' = [lastSet EXCEPT ![task_name] = SomeCursor(last_cursor)]
    /\ cursorRead' = IF cursorRead.task = task_name THEN NoRead ELSE cursorRead

\* update_ingestion_cursor(task_name, last_cursor) called directly.
UpdateIngestionCursor(task_name, last_cursor) ==
    /\ CursorWritten(task_name, last_cursor)
    /\ UNCHANGED <<payments, save, firstInserted>>
    /\ UNCHANGED <<cacheVars, keyVars, mainVars>>
    /\ UNCHANGED restVars

\* update_ingestion_cursor whose execute fails: Err, nothing written.
UpdateIngestionCursorErr(task_name, last_cursor) ==
    /\ UNCHANGED dbVars
    /\ UNCHANGED <<cacheVars, keyVars, mainVars>>
    /\ UNCHANGED restVars

\* Entry of save_payments(payments) called directly by p.
SavePaymentsCall(p, batch) ==
    /\ save[p].pc = "idle"
    /\ save' = [save EXCEPT ![p] = [IdleSave EXCEPT !.pc = "saving", !.todo = batch]]
    /\ UNCHANGED <<ingestion_state, payments, now, cursorRead, lastSet, firstInserted>>
    /\ UNCHANGED <<cacheVars, keyVars, mainVars>>
    /\ UNCHANGED restVars

\* One iteration of the loop (lines 1019-1041): the INSERT is executed.
SavePaymentsInsert(p) ==
    /\ save[p].pc = "saving"
    /\ save[p].todo # <<>>
    /\ LET payment == Head(save[p].todo)
           res == InsertPayment(payments, payment)
       IN /\ payments' = res.rows
          /\ firstInserted' =
                IF res.error = "none" /\ ~\E f \in firstInserted : f.id = payment.id
                THEN firstInserted \cup {payment} ELSE firstInserted
          /\ save' = [save EXCEPT ![p] =
                IF res.error = "none"
                THEN [@ EXCEPT !.todo = Tail(@), !.stored = @ + 1]
                ELSE [@ EXCEPT !.pc = "err", !.error = res.error, !.todo = <<>>]]
    /\ UNCHANGED <<ingestion_state, now, cursorRead, lastSet>>
    /\ UNCHANGED <<cacheVars, keyVars, mainVars>>
    /\ UNCHANGED restVars

\* One iteration whose execute fails (`.await?`): the call returns Err; the
\* records stored by the earlier iterations stay stored.
SavePaymentsExecuteErr(p) ==
    /\ save[p].pc = "saving"
    /\ save[p].todo # <<>>
    /\ save' = [save EXCEPT ![p].pc = "err", ![p].error = "db", ![p].todo = <<>>]
    /\ failedFrom' = IF run[p].pc = "save" /\ save[p].stored > 0
                     THEN failedFrom \cup {run[p].start.cursor} ELSE failedFrom
    /\ UNCHANGED <<ingestion_state, payments, now, cursorRead, lastSet, firstInserted>>
    /\ UNCHANGED <<cacheVars, keyVars, run, mainPc, taskPc, tickReady, shutdownSent, signalAt, lastCycleFailed>>
    /\ UNCHANGED restVars

\* The loop has ended (lines 1042-1047): Ok(()).
SavePaymentsOk(p) ==
    /\ save[p].pc = "saving"
    /\ save[p].todo = <<>>
    /\ save' = [save EXCEPT ![p].pc = "ok"]
    /\ UNCHANGED <<ingestion_state, payments, now, cursorRead, lastSet, firstInserted>>
    /\ UNCHANGED <<cacheVars, keyVars, mainVars>>
    /\ UNCHANGED restVars

\* The direct caller takes the result.
SavePaymentsReturn(p) ==
    /\ save[p].pc \in {"ok", "err"}
    /\ run[p].pc = "idle"
    /\ save' = [save EXCEPT ![p] = IdleSave]
    /\ UNCHANGED <<ingestion_state, payments, now, cursorRead, lastSet, firstInserted>>
    /\ UNCHANGED <<cacheVars, keyVars, mainVars>>
    /\ UNCHANGED restVars

(***************************************************************************)
(* One ingestion cycle (sync_all_metrics -> PaymentIngestor.run): read the *)
(* cursor, fetch the batch after it, save_payments, then advance the       *)
(* cursor.  The cycle's steps use the Database operations above.           *)
(***************************************************************************)
IngestTask == "payments"

\* The position a run starts from: the cursor read, or the start of history.
From(r) == IF run[r].start.some THEN run[r].start.cursor ELSE 0

\* The records of the run's batch: those after its start up to its next.
BatchOf(from, next) == [k \in 1..(next - from) |-> Ledger[from + k]]

\* The runner is executing its call of sync_all_metrics.
RunnerActive(r) ==
    IF r = "main" THEN mainPc = "in_initial_sync" ELSE taskPc = "cycle"

\* get_cursor: Ok gives the stored position, Err fails the run.
IngestReadCursor(r) ==
    /\ RunnerActive(r) /\ run[r].pc = "read"
    /\ \E ok \in BOOLEAN :
         LET cur == get_ingestion_cursor(ingestion_state, IngestTask)
         IN run' = [run EXCEPT ![r] =
                      IF ok THEN [@ EXCEPT !.pc = "fetch", !.start = cur,
                                           !.retry = (cur.cursor \in failedFrom)]
                      ELSE [@ EXCEPT !.pc = "failed", !.why = "read"]]
    /\ UNCHANGED <<failedFrom, mainPc, taskPc, tickReady, shutdownSent, signalAt, lastCycleFailed>>
    /\ UNCHANGED <<cacheVars, keyVars, dbVars>>
    /\ UNCHANGED restVars

\* fetch_since(position): the records after the position up to next_position,
\* and save_payments is entered with them.
IngestFetch(r) ==
    /\ RunnerActive(r) /\ run[r].pc = "fetch"
    /\ save[r].pc = "idle"
    /\ \E next \in From(r)..MaxLedger :
         /\ run' = [run EXCEPT ![r].pc = "save", ![r].next = next]
         /\ save' = [save EXCEPT ![r] =
                       [IdleSave EXCEPT !.pc = "saving", !.todo = BatchOf(From(r), next)]]
    /\ UNCHANGED <<ingestion_state, payments, now, cursorRead, lastSet, firstInserted>>
    /\ UNCHANGED <<failedFrom, mainPc, taskPc, tickReady, shutdownSent, signalAt, lastCycleFailed>>
    /\ UNCHANGED <<cacheVars, keyVars>>
    /\ UNCHANGED restVars

\* The ledger of the specification with fairness holds MaxLiveLedger records.
MaxLiveLedger == 1

\* fetch_since(position) on the ledger of MaxLiveLedger records.
IngestFetchShortLedger(r) ==
    /\ IngestFetch(r)
    /\ run'[r].next <= MaxLiveLedger

\* The remote fetch fails: the run fails, nothing is stored.
IngestFetchErr(r) ==
    /\ RunnerActive(r) /\ run[r].pc = "fetch"
    /\ run' = [run EXCEPT ![r].pc = "failed", ![r].why = "fetch"]
    /\ UNCHANGED <<failedFrom, mainPc, taskPc, tickReady, shutdownSent, signalAt, lastCycleFailed>>
    /\ UNCHANGED <<cacheVars, keyVars, dbVars>>
    /\ UNCHANGED restVars

\* save_payments has returned: Ok goes on to the cursor, Err fails the run.
IngestAfterSave(r) ==
    /\ RunnerActive(r) /\ run[r].pc = "save"
    /\ save[r].pc \in {"ok", "err"}
    /\ run' = [run EXCEPT ![r].pc = IF save[r].pc = "ok" THEN "advance" ELSE "failed",
                          ![r].why = IF save[r].pc = "ok" THEN "none" ELSE "save",
                          ![r].stored = save[r].stored]
    /\ save' = [save EXCEPT ![r] = IdleSave]
    /\ UNCHANGED <<ingestion_state, payments, now, cursorRead, lastSet, firstInserted>>
    /\ UNCHANGED <<failedFrom, mainPc, taskPc, tickReady, shutdownSent, signalAt, lastCycleFailed>>
    /\ UNCHANGED <<cacheVars, keyVars>>
    /\ UNCHANGED restVars

\* update_ingestion_cursor(task, next_position) after the batch is stored.
IngestAdvanceCursor(r) ==
    /\ RunnerActive(r) /\ run[r].pc = "advance"
    /\ CursorWritten(IngestTask, run[r].next)
    /\ run' = [o \in Procs |->
                 IF o = r THEN [run[o] EXCEPT !.pc = "ok", !.wrote = TRUE]
                 ELSE IF run[o].pc \in {"fetch", "save", "advance", "ok", "failed"}
                      THEN [run[o] EXCEPT !.othersWrote = TRUE]
                      ELSE run[o]]
    /\ UNCHANGED <<payments, save, firstInserted>>
    /\ UNCHANGED <<failedFrom, mainPc, taskPc, tickReady, shutdownSent, signalAt, lastCycleFailed>>
    /\ UNCHANGED <<cacheVars, keyVars>>
    /\ UNCHANGED restVars

\* The cursor write fails: the run fails with the cursor as it was.
IngestAdvanceCursorErr(r) ==
    /\ RunnerActive(r) /\ run[r].pc = "advance"
    /\ run' = [run EXCEPT ![r].pc = "failed", ![r].why = "advance"]
    /\ UNCHANGED <<failedFrom, mainPc, taskPc, tickReady, shutdownSent, signalAt, lastCycleFailed>>
    /\ UNCHANGED <<cacheVars, keyVars, dbVars>>
    /\ UNCHANGED restVars

(***************************************************************************)
(* main() and the spawned sync_task (main.rs 94-238)                       *)
(***************************************************************************)
\* Lines 96-98: the task is spawned; its interval's first tick is immediate.
MainSpawnSyncTask ==
    /\ mainPc = "spawn_sync"
    /\ mainPc' = "initial_sync"
    /\ taskPc' = "select"
    /\ tickReady' = TRUE
    /\ UNCHANGED <<run, failedFrom, shutdownSent, signalAt, lastCycleFailed>>
    /\ UNCHANGED <<cacheVars, keyVars, dbVars>>
    /\ UNCHANGED restVars

\* Line 117: main calls ingestion_service.sync_all_metrics().
MainInitialSyncStart ==
    /\ mainPc = "initial_sync"
    /\ mainPc' = "in_initial_sync"
    /\ run' = [run EXCEPT !["main"] = [IdleRun EXCEPT !.pc = "read"]]
    /\ UNCHANGED <<failedFrom, taskPc, tickReady, shutdownSent, signalAt, lastCycleFailed>>
    /\ UNCHANGED <<cacheVars, keyVars, dbVars>>
    /\ UNCHANGED restVars

\* Lines 117-119: the initial sync has returned; an Err is logged.
MainInitialSyncReturn ==
    /\ mainPc = "in_initial_sync"
    /\ run["main"].pc \in {"ok", "failed"}
    /\ mainPc' = "bind"
    /\ run' = [run EXCEPT !["main"] = IdleRun]
    /\ UNCHANGED <<failedFrom, taskPc, tickReady, shutdownSent, signalAt, lastCycleFailed>>
    /\ UNCHANGED <<cacheVars, keyVars, dbVars>>
    /\ UNCHANGED restVars

\* Lines 177-192: the listener is bound and the server task spawned.
MainServe ==
    /\ mainPc = "bind"
    /\ mainPc' = "wait_signal"
    /\ UNCHANGED <<run, failedFrom, taskPc, tickReady, shutdownSent, signalAt, lastCycleFailed>>
    /\ UNCHANGED <<cacheVars, keyVars, dbVars>>
    /\ UNCHANGED restVars

\* Line 177: bind fails, main returns the error; the runtime is dropped and
\* the spawned task is cancelled where it stands.
MainBindErr ==
    /\ mainPc = "bind"
    /\ mainPc' = "exit_err"
    /\ taskPc' = IF taskPc = "stopped" THEN taskPc ELSE "cancelled"
    /\ UNCHANGED <<run, failedFrom, tickReady, shutdownSent, signalAt, lastCycleFailed>>
    /\ UNCHANGED <<cacheVars, keyVars, dbVars>>
    /\ UNCHANGED restVars

\* Lines 195-199: the signal arrives and the shutdown is broadcast.
MainTriggerShutdown ==
    /\ mainPc = "wait_signal"
    /\ mainPc' = "step1"
    /\ shutdownSent' = TRUE
    /\ signalAt' = taskPc
    /\ UNCHANGED <<run, failedFrom, taskPc, tickReady, lastCycleFailed>>
    /\ UNCHANGED <<cacheVars, keyVars, dbVars>>
    /\ UNCHANGED restVars

\* A shutdown that closes the database when the graceful timeout expires,
\* without steps 2 and 3.
MainStep1ThenClose ==
    /\ mainPc = "step1"
    /\ mainPc' \in {"step2", "step4"}
    /\ UNCHANGED <<run, failedFrom, taskPc, tickReady, shutdownSent, signalAt, lastCycleFailed>>
    /\ UNCHANGED <<cacheVars, keyVars, dbVars>>
    /\ UNCHANGED restVars

\* Lines 201-215: the server has stopped, or the graceful timeout expired.
MainStep1 ==
    /\ mainPc = "step1"
    /\ mainPc' = "step2"
    /\ UNCHANGED <<run, failedFrom, taskPc, tickReady, shutdownSent, signalAt, lastCycleFailed>>
    /\ UNCHANGED <<cacheVars, keyVars, dbVars>>
    /\ UNCHANGED restVars

\* Lines 217-223: shutdown_background_tasks returns once the task has
\* stopped, or when its timeout expires.
MainStep2 ==
    /\ mainPc = "step2"
    /\ mainPc' = "step3"
    /\ UNCHANGED <<run, failedFrom, taskPc, tickReady, shutdownSent, signalAt, lastCycleFailed>>
    /\ UNCHANGED <<cacheVars, keyVars, dbVars>>
    /\ UNCHANGED restVars

\* Lines 225-227: flush_caches.
MainStep3 ==
    /\ mainPc = "step3"
    /\ mainPc' = "step4"
    /\ UNCHANGED <<run, failedFrom, taskPc, tickReady, shutdownSent, signalAt, lastCycleFailed>>
    /\ UNCHANGED <<cacheVars, keyVars, dbVars>>
    /\ UNCHANGED restVars

\* Lines 229-237: the pool is closed and main returns Ok: the runtime is
\* dropped, a task still running is cancelled.
MainStep4 ==
    /\ mainPc = "step4"
    /\ mainPc' = "exit_ok"
    /\ taskPc' = IF taskPc = "stopped" THEN taskPc ELSE "cancelled"
    /\ UNCHANGED <<run, failedFrom, tickReady, shutdownSent, signalAt, lastCycleFailed>>
    /\ UNCHANGED <<cacheVars, keyVars, dbVars>>
    /\ UNCHANGED restVars

\* The interval's period (300 s) has elapsed.
TimerElapse ==
    /\ taskPc \in {"select", "cycle"}
    /\ ~tickReady
    /\ tickReady' = TRUE
    /\ UNCHANGED <<run, failedFrom, mainPc, taskPc, shutdownSent, signalAt, lastCycleFailed>>
    /\ UNCHANGED <<cacheVars, keyVars, dbVars>>
    /\ UNCHANGED restVars

\* Lines 100-102: select! takes the tick branch and calls sync_all_metrics.
SyncTaskSelectTick ==
    /\ taskPc = "select"
    /\ tickReady
    /\ tickReady' = FALSE
    /\ taskPc' = "cycle"
    /\ run' = [run EXCEPT !["sync_task"] = [IdleRun EXCEPT !.pc = "read"]]
    /\ UNCHANGED <<failedFrom, mainPc, shutdownSent, signalAt, lastCycleFailed>>
    /\ UNCHANGED <<cacheVars, keyVars, dbVars>>
    /\ UNCHANGED restVars

\* A loop that leaves when its cycle fails (a `?` or `break` in the Err arm).
SyncTaskCycleReturnBreakOnErr ==
    /\ taskPc = "cycle"
    /\ run["sync_task"].pc \in {"ok", "failed"}
    /\ taskPc' = IF run["sync_task"].pc = "ok" THEN "select" ELSE "stopped"
    /\ lastCycleFailed' = (run["sync_task"].pc = "failed")
    /\ run' = [run EXCEPT !["sync_task"] = IdleRun]
    /\ UNCHANGED <<failedFrom, mainPc, tickReady, shutdownSent, signalAt>>
    /\ UNCHANGED <<cacheVars, keyVars, dbVars>>
    /\ UNCHANGED restVars

\* Lines 102-105: the cycle has returned; an Err is logged; back to select!.
SyncTaskCycleReturn ==
    /\ taskPc = "cycle"
    /\ run["sync_task"].pc \in {"ok", "failed"}
    /\ taskPc' = "select"
    /\ lastCycleFailed' = (run["sync_task"].pc = "failed")
    /\ run' = [run EXCEPT !["sync_task"] = IdleRun]
    /\ UNCHANGED <<failedFrom, mainPc, tickReady, shutdownSent, signalAt>>
    /\ UNCHANGED <<cacheVars, keyVars, dbVars>>
    /\ UNCHANGED restVars

\* A loop whose shutdown branch races the cycle itself (the cycle's future
\* placed inside select!), so that the receiver is polled during a cycle.
SyncTaskSelectShutdownDuringCycle ==
    /\ taskPc \in {"select", "cycle"}
    /\ shutdownSent
    /\ taskPc' = "stopped"
    /\ UNCHANGED <<run, failedFrom, mainPc, tickReady, shutdownSent, signalAt, lastCycleFailed>>
    /\ UNCHANGED <<cacheVars, keyVars, dbVars>>
    /\ UNCHANGED restVars

\* A shutdown branch without `break`: the signal is taken from the receiver
\* and the loop goes on.
SyncTaskSelectShutdownNoBreak ==
    /\ taskPc = "select"
    /\ shutdownSent
    /\ shutdownSent' = FALSE
    /\ UNCHANGED <<run, failedFrom, mainPc, taskPc, tickReady, signalAt, lastCycleFailed>>
    /\ UNCHANGED <<cacheVars, keyVars, dbVars>>
    /\ UNCHANGED restVars

\* Lines 106-109: select! takes the shutdown branch; the loop is left.
SyncTaskSelectShutdown ==
    /\ taskPc = "select"
    /\ shutdownSent
    /\ taskPc' = "stopped"
    /\ UNCHANGED <<run, failedFrom, mainPc, tickReady, shutdownSent, signalAt, lastCycleFailed>>
    /\ UNCHANGED <<cacheVars, keyVars, dbVars>>
    /\ UNCHANGED restVars

(***************************************************************************)
(* validate_corridor_filters (validation.rs 7-87).  An f64 is NaN, an      *)
(* infinity, or the finite number m * 10^e.                                *)
(***************************************************************************)
Num(m, e) == [kind |-> "num", m |-> m, e |-> e]
NaN == [kind |-> "nan", m |-> 0, e |-> 0]
INFINITY == [kind |-> "inf", m |-> 0, e |-> 0]
NEG_INFINITY == [kind |-> "ninf", m |-> 0, e |-> 0]

\* f64::is_finite and f64::is_nan.
is_finite(v) == v.kind = "num"
is_nan(v) == v.kind = "nan"

\* a < b on finite numbers; a number with e > 0 has m # 0 and outweighs
\* every number with e = 0.
NumLt(a, b) ==
    IF a.e = b.e THEN a.m < b.m
    ELSE IF a.e > b.e THEN a.m < 0
    ELSE b.m > 0

\* The f64 operators < and >: false whenever an operand is NaN.
Lt(a, b) ==
    IF is_nan(a) \/ is_nan(b) THEN FALSE
    ELSE IF a.kind = "ninf" THEN b.kind # "ninf"
    ELSE IF a.kind = "inf" THEN FALSE
    ELSE IF b.kind = "inf" THEN TRUE
    ELSE IF b.kind = "ninf" THEN FALSE
    ELSE NumLt(a, b)
Gt(a, b) == Lt(b, a)

\* Option<f64>.
None == [some |-> FALSE, v |-> Num(0, 0)]
Some(x) == [some |-> TRUE, v |-> x]

Zeros(n) == [i \in 1..n |-> "0"]

\* Display of an f64 ({} in format!): a finite whole number prints its digits.
DisplayF64(v) ==
    CASE v.kind = "nan" -> <<"N", "a", "N">>
      [] v.kind = "inf" -> <<"i", "n", "f">>
      [] v.kind = "ninf" -> <<"-", "i", "n", "f">>
      [] OTHER -> IF v.m = 0 THEN <<"0">>
                  ELSE IF v.m < 0 THEN <<"-">> \o ToDec(0 - v.m) \o Zeros(v.e)
                  ELSE ToDec(v.m) \o Zeros(v.e)

\* ApiResult<()>: Ok(()), or Err(ApiError::bad_request(code, message)).  The
\* message is its format string, the parameter names written in it and the
\* value texts written in it.
ApiOk == [kind |-> "ok", code |-> "none",
          message |-> [text |-> "none", names |-> {}, values |-> {}]]
bad_request(code, message) == [kind |-> "err", code |-> code, message |-> message]

\* Lines 17-26 without the is_finite test.
validate_filter_f64_no_finite_check(value, min_allowed, max_allowed, param_name) ==
    IF ~value.some THEN ApiOk
    ELSE IF Lt(value.v, min_allowed) \/ Gt(value.v, max_allowed)
    THEN bad_request("INVALID_PARAMETER",
            [text |-> "{} must be between {} and {} (got {}).",
             names |-> {param_name},
             values |-> {DisplayF64(min_allowed), DisplayF64(max_allowed),
                         DisplayF64(value.v)}])
    ELSE ApiOk

validate_filter_f64(value, min_allowed, max_allowed, param_name) ==
    IF ~value.some THEN ApiOk
    ELSE IF ~is_finite(value.v)
    THEN bad_request("INVALID_PARAMETER",
            [text |-> "{} must be a finite number (got {}).",
             names |-> {param_name},
             values |-> {IF is_nan(value.v) THEN <<"N", "a", "N">>
                         ELSE <<"i", "n", "f", "i", "n", "i", "t", "y">>}])
    ELSE IF Lt(value.v, min_allowed) \/ Gt(value.v, max_allowed)
    THEN bad_request("INVALID_PARAMETER",
            [text |-> "{} must be between {} and {} (got {}).",
             names |-> {param_name},
             values |-> {DisplayF64(min_allowed), DisplayF64(max_allowed),
                         DisplayF64(value.v)}])
    ELSE ApiOk

SUCCESS_RATE_MIN == Num(0, 0)
SUCCESS_RATE_MAX == Num(100, 0)
VOLUME_MIN == Num(0, 0)
VOLUME_MAX == Num(1, 18)

validate_corridor_filters(success_rate_min, success_rate_max, volume_min, volume_max) ==
    LET r1 == validate_filter_f64(success_rate_min, SUCCESS_RATE_MIN, SUCCESS_RATE_MAX,
                                  "success_rate_min")
        r2 == validate_filter_f64(success_rate_max, SUCCESS_RATE_MIN, SUCCESS_RATE_MAX,
                                  "success_rate_max")
        r3 == validate_filter_f64(volume_min, VOLUME_MIN, VOLUME_MAX, "volume_min")
        r4 == validate_filter_f64(volume_max, VOLUME_MIN, VOLUME_MAX, "volume_max")
    IN IF r1.kind = "err" THEN r1
       ELSE IF r2.kind = "err" THEN r2
       ELSE IF r3.kind = "err" THEN r3
       ELSE IF r4.kind = "err" THEN r4
       ELSE IF success_rate_min.some /\ success_rate_max.some
               /\ Gt(success_rate_min.v, success_rate_max.v)
       THEN bad_request("INVALID_PARAMETER",
               [text |-> "success_rate_min must be less than or equal to success_rate_max.",
                names |-> {"success_rate_min", "success_rate_max"},
                values |-> {}])
       ELSE IF volume_min.some /\ volume_max.some /\ Gt(volume_min.v, volume_max.v)
       THEN bad_request("INVALID_PARAMETER",
               [text |-> "volume_min must be less than or equal to volume_max.",
                names |-> {"volume_min", "volume_max"},
                values |-> {}])
       ELSE ApiOk

\* The filter values tried: absent, not finite, below, at, inside and above
\* the allowed range.
RateSamples == {None, Some(NaN), Some(INFINITY), Some(NEG_INFINITY), Some(Num(-1, 0)),
                Some(Num(0, 0)), Some(Num(50, 0)), Some(Num(100, 0)), Some(Num(101, 0))}
VolumeSamples == {None, Some(NaN), Some(INFINITY), Some(NEG_INFINITY), Some(Num(-1, 0)),
                  Some(Num(0, 0)), Some(Num(50, 0)), Some(Num(1, 18)), Some(Num(2, 18))}

FilterParams == {"success_rate_min", "success_rate_max", "volume_min", "volume_max"}
IdleValidation == [pc |-> "idle", args |-> [p \in FilterParams |-> None], result |-> ApiOk]

\* A request handler calls validate_corridor_filters with its query's filters.
ValidateCorridorFilters(success_rate_min, success_rate_max, volume_min, volume_max) ==
    /\ vcall.pc = "idle"
    /\ vcall' = [pc |-> "done",
                 args |-> [p \in FilterParams |->
                             CASE p = "success_rate_min" -> success_rate_min
                               [] p = "success_rate_max" -> success_rate_max
                               [] p = "volume_min" -> volume_min
                               [] OTHER -> volume_max],
                 result |-> validate_corridor_filters(success_rate_min, success_rate_max,
                                                      volume_min, volume_max)]
    /\ UNCHANGED <<cacheVars, keyVars, dbVars, mainVars, muxVars, aggVars, hourlyVars, anchorVars, assetVars, apiVars>>

\* The handler has taken the result.
ValidateCorridorFiltersReturn ==
    /\ vcall.pc = "done"
    /\ vcall' = IdleValidation
    /\ UNCHANGED <<cacheVars, keyVars, dbVars, mainVars, muxVars, aggVars, hourlyVars, anchorVars, assetVars, apiVars>>

(***************************************************************************)
(* get_muxed_analytics (database.rs 1118-1225), over the payments table.   *)
(* An address is the sequence of its characters.                           *)
(***************************************************************************)
MUXED_LEN == 69

\* The address of the given length that starts with prefix, filled with 'A'.
Address(prefix, len) == [i \in 1..len |-> IF i <= Len(prefix) THEN prefix[i] ELSE "A"]

\* Multiplexed addresses of base accounts A (ids 2 and 3) and B, an account
\* address, and two addresses with only the prefix or only the length of a
\* multiplexed one.
MA2 == Address(<<"M", "A", "2">>, 69)
MA3 == Address(<<"M", "A", "3">>, 69)
MB2 == Address(<<"M", "B", "2">>, 69)
GC == Address(<<"G", "C">>, 56)
MShort == Address(<<"M", "D">>, 56)
GLong == Address(<<"G", "D">>, 69)

\* String order (Ord for String): by the first differing character, a proper
\* prefix first.  The characters of addresses, in code point order.
AddrChars == <<"2", "3", "A", "B", "C", "D", "G", "M">>
CharRank(ch) == CHOOSE i \in 1..Len(AddrChars) : AddrChars[i] = ch
StringLess(a, b) ==
    \/ \E i \in 1..Len(a) :
          /\ i <= Len(b)
          /\ \A j \in 1..(i - 1) : a[j] = b[j]
          /\ CharRank(a[i]) < CharRank(b[i])
    \/ /\ Len(a) < Len(b)
       /\ \A j \in 1..Len(a) : a[j] = b[j]

\* SQLite's LIKE 'M%' (case-insensitive on ASCII letters).
LikeM(s) == Len(s) >= 1 /\ s[1] \in {"M", "m"}

\* s LIKE 'M%' AND LENGTH(s) = ?1 with MUXED_LEN bound.
SqlIsMuxed(s) == LikeM(s) /\ Len(s) = MUXED_LEN

\* A count that adds the payments with a multiplexed source to those with a
\* multiplexed destination.
CountMuxedPaymentsBySide(rows) ==
    Cardinality({i \in DOMAIN rows : SqlIsMuxed(rows[i].source_account)})
    + Cardinality({i \in DOMAIN rows : SqlIsMuxed(rows[i].destination_account)})

\* Lines 1124-1133: SELECT COUNT(*) ... WHERE (source ...) OR (destination ...).
CountMuxedPayments(rows) ==
    Cardinality({i \in DOMAIN rows : \/ SqlIsMuxed(rows[i].source_account)
                                     \/ SqlIsMuxed(rows[i].destination_account)})

\* Lines 1141-1147, 1155-1161: SELECT col AS addr, COUNT(*) AS cnt ... GROUP BY col.
GroupCounts(rows, col) ==
    {[addr |-> a, cnt |-> Cardinality({i \in DOMAIN rows : rows[i][col] = a})] :
        a \in {rows[i][col] : i \in {k \in DOMAIN rows : SqlIsMuxed(rows[k][col])}}}

\* ORDER BY cnt DESC LIMIT ?2: the possible results, as sets of rows; rows of
\* equal cnt come in an order the statement does not fix.
OrderByCntDescLimit(groups, limit) ==
    {S \in SUBSET groups :
        /\ Cardinality(S) = IF limit < Cardinality(groups) THEN limit
                            ELSE Cardinality(groups)
        /\ \A r \in S, q \in groups \ S : r.cnt >= q.cnt}

\* Lines 1169-1176: by_addr, the (source, destination) counts held per address.
ByAddr(source_counts, dest_counts) ==
    [a \in {r.addr : r \in source_counts \cup dest_counts} |->
        [src |-> IF \E r \in source_counts : r.addr = a
                 THEN (CHOOSE r \in source_counts : r.addr = a).cnt ELSE 0,
         dest |-> IF \E r \in dest_counts : r.addr = a
                  THEN (CHOOSE r \in dest_counts : r.addr = a).cnt ELSE 0]]

\* Option<String>.
NoString == [some |-> FALSE, s |-> <<>>]
SomeString(s) == [some |-> TRUE, s |-> s]

\* muxed::parse_muxed_address: the decoder gives the base account and the
\* embedded id of a multiplexed address, nothing for another string.
parse_muxed_address(addr) ==
    IF Len(addr) = 69 /\ addr[1] = "M"
    THEN [base_account |-> SomeString(Address(<<"G", addr[2]>>, 56)),
          muxed_id |-> SomeString(<<addr[3]>>)]
    ELSE [base_account |-> NoString, muxed_id |-> NoString]

\* Lines 1180-1191: the MuxedAccountUsage of one by_addr entry.
MuxedAccountUsage(account_address, src, dest) ==
    [account_address |-> account_address,
     base_account |-> parse_muxed_address(account_address).base_account,
     muxed_id |-> parse_muxed_address(account_address).muxed_id,
     payment_count_as_source |-> src,
     payment_count_as_destination |-> dest,
     total_payments |-> src + dest]

\* Lines 1178-1193: the entries in the HashMap's iteration order, then
\* sort_by total descending (stable): every arrangement of the entries with
\* totals not increasing.
SortByTotalDesc(by_addr) ==
    LET entries == {MuxedAccountUsage(a, by_addr[a].src, by_addr[a].dest) :
                       a \in DOMAIN by_addr}
        n == Cardinality(entries)
    IN {list \in [1..n -> entries] :
          /\ \A i, j \in 1..n : i # j => list[i] # list[j]
          /\ \A i \in 1..(n - 1) : list[i].total_payments >= list[i + 1].total_payments}

\* Vec::truncate(len).
Truncate(list, len) == IF Len(list) > len THEN SubSeq(list, 1, len) ELSE list

\* Lines 1196-1207: COUNT(DISTINCT addr) over the UNION of both columns.
CountUniqueMuxed(rows) ==
    Cardinality({rows[i].source_account :
                    i \in {k \in DOMAIN rows : SqlIsMuxed(rows[k].source_account)}}
                \cup
                {rows[i].destination_account :
                    i \in {k \in DOMAIN rows : SqlIsMuxed(rows[k].destination_account)}})

\* Lines 1209-1214: the base accounts of the list's entries, collected in a
\* BTreeSet and listed in its order.
BaseAccountsOf(list) ==
    LET bases == {list[i].base_account.s :
                     i \in {k \in DOMAIN list : list[k].base_account.some}}
        n == Cardinality(bases)
    IN CHOOSE out \in [1..n -> bases] :
          \A i \in 1..(n - 1) : StringLess(out[i], out[i + 1])

\* A payment between two addresses.
MuxedPayment(id, source, destination) ==
    [Payment(id, source, 10) EXCEPT !.destination_account = destination]

\* The (source, destination) pairs of the payments stored.
SamplePairs == {<<MA2, MB2>>, <<GC, MB2>>, <<GC, MA2>>, <<MA3, GC>>,
                <<MB2, MB2>>, <<MShort, GLong>>}
TopLimits == 1..MaxTop

NoAnalytics == [pc |-> "idle", top_limit |-> 0, total_muxed_payments |-> 0,
                unique_muxed_addresses |-> 0, top_muxed_by_activity |-> <<>>,
                base_accounts_with_muxed |-> <<>>]

\* save_payments with one record (one INSERT statement), successful.
SavePaymentsOne(source, destination) ==
    /\ Len(payments) < MaxPayments
    /\ LET payment == MuxedPayment(Len(payments) + 1, source, destination)
           res == InsertPayment(payments, payment)
       IN /\ payments' = res.rows
          /\ firstInserted' =
                IF res.error = "none" /\ ~\E f \in firstInserted : f.id = payment.id
                THEN firstInserted \cup {payment} ELSE firstInserted
    /\ analytics' = NoAnalytics
    /\ UNCHANGED <<ingestion_state, now, save, cursorRead, lastSet>>
    /\ UNCHANGED <<cacheVars, keyVars, mainVars, valVars, aggVars, hourlyVars, anchorVars, assetVars, apiVars>>

\* get_muxed_analytics(top_limit) on the table as it stands.
GetMuxedAnalytics(top_limit) ==
    /\ \E source_counts \in OrderByCntDescLimit(GroupCounts(payments, "source_account"),
                                                top_limit),
          dest_counts \in OrderByCntDescLimit(GroupCounts(payments, "destination_account"),
                                              top_limit) :
         \E sorted \in SortByTotalDesc(ByAddr(source_counts, dest_counts)) :
            LET top_muxed_by_activity == Truncate(sorted, top_limit)
            IN analytics' =
                 [pc |-> "done", top_limit |-> top_limit,
                  total_muxed_payments |-> CountMuxedPayments(payments),
                  unique_muxed_addresses |-> CountUniqueMuxed(payments),
                  top_muxed_by_activity |-> top_muxed_by_activity,
                  base_accounts_with_muxed |-> BaseAccountsOf(top_muxed_by_activity)]
    /\ UNCHANGED <<cacheVars, keyVars, dbVars, mainVars, valVars, aggVars, hourlyVars, anchorVars, assetVars, apiVars>>

(***************************************************************************)
(* Aggregation jobs (database.rs 1085-1116): the Database methods hand     *)
(* their arguments to AggregationDb, which keeps table aggregation_jobs.   *)
(***************************************************************************)
JobIds == {"job1", "job2"}
JobStatuses == {"pending", "running", "completed", "failed"}
\* The status strings callers pass: the four statuses and another string.
StatusArgs == JobStatuses \cup {"paused"}
Hours == 1..MaxHour

\* No row / the row a job is created with.
NoJob == [exists |-> FALSE, job_type |-> "none", status |-> "none", retry_count |-> 0,
          last_processed_hour |-> 0, error_message |-> "none"]
NewJob(job_type) == [exists |-> TRUE, job_type |-> job_type, status |-> "pending",
                     retry_count |-> 0, last_processed_hour |-> 0,
                     error_message |-> "none"]

\* The status changes of a job.
JobTransitions == {<<"pending", "running">>, <<"running", "completed">>,
                   <<"running", "failed">>}

\* AggregationDb::create_aggregation_job: a new job_id gets a pending row; a
\* known job_id keeps its row.
create_aggregation_job(jobs, job_id, job_type) ==
    IF jobs[job_id].exists THEN jobs
    ELSE [jobs EXCEPT ![job_id] = NewJob(job_type)]

\* A status update that writes whatever status it is given.
update_aggregation_job_status_unchecked(jobs, job_id, status, error_message) ==
    IF ~jobs[job_id].exists THEN jobs
    ELSE [jobs EXCEPT ![job_id].status = status,
                      ![job_id].error_message = error_message]

\* AggregationDb::update_aggregation_job_status: the job's state machine;
\* a status that is no next state of the job's status changes nothing.
update_aggregation_job_status(jobs, job_id, status, error_message) ==
    IF jobs[job_id].exists /\ <<jobs[job_id].status, status>> \in JobTransitions
    THEN [jobs EXCEPT ![job_id].status = status,
                      ![job_id].error_message = error_message]
    ELSE jobs

\* A watermark update that stores last_hour as given.
update_last_processed_hour_overwrite(jobs, job_id, last_hour) ==
    IF ~jobs[job_id].exists THEN jobs
    ELSE [jobs EXCEPT ![job_id].last_processed_hour = last_hour]

\* AggregationDb::update_last_processed_hour: the watermark moves to
\* last_hour only if last_hour is not before it (0: no hour processed yet).
update_last_processed_hour(jobs, job_id, last_hour) ==
    IF jobs[job_id].exists /\ last_hour >= jobs[job_id].last_processed_hour
    THEN [jobs EXCEPT ![job_id].last_processed_hour = last_hour]
    ELSE jobs

\* AggregationDb::get_job_retry_count and increment_job_retry_count.
get_job_retry_count(jobs, job_id) == jobs[job_id].retry_count
increment_job_retry_count(jobs, job_id) ==
    IF jobs[job_id].exists THEN [jobs EXCEPT ![job_id].retry_count = @ + 1] ELSE jobs

NoAggCall == [op |-> "none", job_id |-> "none", status |-> "none", hour |-> 0,
              changed |-> FALSE]

\* Database::create_aggregation_job (lines 1085-1089).
CreateAggregationJob(job_id, job_type) ==
    /\ aggregation_jobs' = create_aggregation_job(aggregation_jobs, job_id, job_type)
    /\ aggCall' = [NoAggCall EXCEPT !.op = "create", !.job_id = job_id,
                                    !.changed = (aggregation_jobs' # aggregation_jobs)]
    /\ UNCHANGED <<cacheVars, keyVars, dbVars, mainVars, valVars, muxVars, hourlyVars, anchorVars, assetVars, apiVars>>

\* Database::update_aggregation_job_status (lines 1091-1100).
UpdateAggregationJobStatus(job_id, status, error_message) ==
    /\ aggregation_jobs' =
          update_aggregation_job_status(aggregation_jobs, job_id, status, error_message)
    /\ aggCall' = [NoAggCall EXCEPT !.op = "status", !.job_id = job_id, !.status = status,
                                    !.changed = (aggregation_jobs' # aggregation_jobs)]
    /\ UNCHANGED <<cacheVars, keyVars, dbVars, mainVars, valVars, muxVars, hourlyVars, anchorVars, assetVars, apiVars>>

\* Database::update_last_processed_hour (lines 1102-1106).
UpdateLastProcessedHour(job_id, last_hour) ==
    /\ aggregation_jobs' = update_last_processed_hour(aggregation_jobs, job_id, last_hour)
    /\ aggCall' = [NoAggCall EXCEPT !.op = "hour", !.job_id = job_id, !.hour = last_hour,
                                    !.changed = (aggregation_jobs' # aggregation_jobs)]
    /\ UNCHANGED <<cacheVars, keyVars, dbVars, mainVars, valVars, muxVars, hourlyVars, anchorVars, assetVars, apiVars>>

\* Database::increment_job_retry_count (lines 1112-1116).
IncrementJobRetryCount(job_id) ==
    /\ get_job_retry_count(aggregation_jobs, job_id) < MaxRetry
    /\ aggregation_jobs' = increment_job_retry_count(aggregation_jobs, job_id)
    /\ aggCall' = [NoAggCall EXCEPT !.op = "retry", !.job_id = job_id,
                                    !.changed = (aggregation_jobs' # aggregation_jobs)]
    /\ UNCHANGED <<cacheVars, keyVars, dbVars, mainVars, valVars, muxVars, hourlyVars, anchorVars, assetVars, apiVars>>

(***************************************************************************)
(* The job manager's operations on a job, made of the Database methods     *)
(* above: start (create, then running), complete, fail.                    *)
(***************************************************************************)
\* start, first half: the job is created, pending.
StartJobCreate(job_id, job_type) ==
    /\ ~aggregation_jobs[job_id].exists
    /\ aggregation_jobs' = create_aggregation_job(aggregation_jobs, job_id, job_type)
    /\ aggCall' = [NoAggCall EXCEPT !.op = "start_create", !.job_id = job_id,
                                    !.changed = (aggregation_jobs' # aggregation_jobs)]
    /\ UNCHANGED <<cacheVars, keyVars, dbVars, mainVars, valVars, muxVars, hourlyVars, anchorVars, assetVars, apiVars>>

\* start, second half: the pending job is moved to running.
StartJobRun(job_id) ==
    /\ aggregation_jobs[job_id].status = "pending"
    /\ aggregation_jobs' =
          update_aggregation_job_status(aggregation_jobs, job_id, "running", "none")
    /\ aggCall' = [NoAggCall EXCEPT !.op = "start_run", !.job_id = job_id,
                                    !.status = "running",
                                    !.changed = (aggregation_jobs' # aggregation_jobs)]
    /\ UNCHANGED <<cacheVars, keyVars, dbVars, mainVars, valVars, muxVars, hourlyVars, anchorVars, assetVars, apiVars>>

\* complete(job_id, last_hour): completed, and the watermark advanced.
CompleteJob(job_id, last_hour) ==
    /\ aggregation_jobs[job_id].status = "running"
    /\ aggregation_jobs' =
          update_last_processed_hour(
              update_aggregation_job_status(aggregation_jobs, job_id, "completed", "none"),
              job_id, last_hour)
    /\ aggCall' = [NoAggCall EXCEPT !.op = "complete", !.job_id = job_id,
                                    !.status = "completed", !.hour = last_hour,
                                    !.changed = (aggregation_jobs' # aggregation_jobs)]
    /\ UNCHANGED <<cacheVars, keyVars, dbVars, mainVars, valVars, muxVars, hourlyVars, anchorVars, assetVars, apiVars>>

\* A fail that records the status and the error only.
FailJobWithoutIncrement(job_id, error) ==
    /\ aggregation_jobs[job_id].status = "running"
    /\ aggregation_jobs' =
          update_aggregation_job_status(aggregation_jobs, job_id, "failed", error)
    /\ aggCall' = [NoAggCall EXCEPT !.op = "fail", !.job_id = job_id,
                                    !.status = "failed",
                                    !.changed = (aggregation_jobs' # aggregation_jobs)]
    /\ UNCHANGED <<cacheVars, keyVars, dbVars, mainVars, valVars, muxVars, hourlyVars, anchorVars, assetVars, apiVars>>

\* fail(job_id, error): failed with the error, and retry_count incremented.
FailJob(job_id, error) ==
    /\ aggregation_jobs[job_id].status = "running"
    /\ get_job_retry_count(aggregation_jobs, job_id) < MaxRetry
    /\ aggregation_jobs' =
          increment_job_retry_count(
              update_aggregation_job_status(aggregation_jobs, job_id, "failed", error),
              job_id)
    /\ aggCall' = [NoAggCall EXCEPT !.op = "fail", !.job_id = job_id,
                                    !.status = "failed",
                                    !.changed = (aggregation_jobs' # aggregation_jobs)]
    /\ UNCHANGED <<cacheVars, keyVars, dbVars, mainVars, valVars, muxVars, hourlyVars, anchorVars, assetVars, apiVars>>

(***************************************************************************)
(* Hourly aggregation (database.rs 1055-1083): aggregate(range) reads the  *)
(* payments of the range, computes one metric per corridor and hour bucket *)
(* and upserts it.  created_at is in half hours.                           *)
(***************************************************************************)
\* A payment of a corridor (its asset), with its amount and time.
CorridorPayment(id, asset_code, amount, created_at) ==
    [Payment(id, "GSRC", amount) EXCEPT !.asset_code = asset_code,
                                        !.created_at = created_at]

\* The payments stored: (asset_code, amount, created_at).
SampleCorridorPayments == {<<"USD", 10, 0>>, <<"USD", 20, 1>>, <<"USD", 10, 2>>,
                           <<"EUR", 10, 1>>, <<"EUR", 20, 3>>}

\* The hour ranges [start, end) aggregated.
HourRanges == {<<0, 1>>, <<1, 2>>, <<0, 2>>}

\* The hour bucket of a time: two half hours to the hour.
HourBucket(created_at) == created_at \div 2

\* Database::fetch_payments_by_timerange: the rows with created_at in
\* [start_time, end_time), at most limit of them, in table order.
RECURSIVE TakeInRange(_, _, _, _)
TakeInRange(rows, start_time, end_time, limit) ==
    IF rows = <<>> \/ limit = 0 THEN <<>>
    ELSE IF Head(rows).created_at >= start_time /\ Head(rows).created_at < end_time
         THEN <<Head(rows)>> \o TakeInRange(Tail(rows), start_time, end_time, limit - 1)
         ELSE TakeInRange(Tail(rows), start_time, end_time, limit)
fetch_payments_by_timerange(rows, start_time, end_time, limit) ==
    TakeInRange(rows, start_time, end_time, limit)

RECURSIVE SumAmounts(_)
SumAmounts(records) ==
    IF records = <<>> THEN 0 ELSE Head(records).amount + SumAmounts(Tail(records))

\* The HourlyCorridorMetrics of one corridor and bucket over the records read.
ComputeMetric(records, corridor_key, hour_bucket) ==
    LET own == SelectSeq(records, LAMBDA p : /\ p.asset_code = corridor_key
                                             /\ HourBucket(p.created_at) = hour_bucket)
    IN [corridor_key |-> corridor_key, hour_bucket |-> hour_bucket,
        volume |-> SumAmounts(own), tx_count |-> Len(own)]

\* The metrics aggregate computes from the records read: one per corridor
\* and bucket that has a record.
ComputeMetrics(records) ==
    {ComputeMetric(records, records[i].asset_code, HourBucket(records[i].created_at)) :
        i \in DOMAIN records}

\* An upsert that adds the new figures to the stored row's.
upsert_hourly_corridor_metric_additive(table, metric) ==
    IF \E row \in table : /\ row.corridor_key = metric.corridor_key
                          /\ row.hour_bucket = metric.hour_bucket
    THEN {IF row.corridor_key = metric.corridor_key /\ row.hour_bucket = metric.hour_bucket
          THEN [row EXCEPT !.volume = @ + metric.volume, !.tx_count = @ + metric.tx_count]
          ELSE row : row \in table}
    ELSE table \cup {metric}

\* AggregationDb::upsert_hourly_corridor_metric: the row of the metric's
\* (corridor_key, hour_bucket) is inserted, or replaced by the metric.
upsert_hourly_corridor_metric(table, metric) ==
    {row \in table : ~(/\ row.corridor_key = metric.corridor_key
                       /\ row.hour_bucket = metric.hour_bucket)}
    \cup {metric}

\* All the metrics upserted, one after another.
RECURSIVE UpsertAll(_, _)
UpsertAll(table, metrics) ==
    IF metrics = {} THEN table
    ELSE LET metric == CHOOSE m \in metrics : TRUE
         IN UpsertAll(upsert_hourly_corridor_metric(table, metric), metrics \ {metric})

\* aggregate(range) on the payments as they stand.
aggregate(table, rows, range) ==
    UpsertAll(table,
              ComputeMetrics(fetch_payments_by_timerange(rows, 2 * range[1], 2 * range[2],
                                                         Len(rows))))

NoAggregate == [range |-> <<0, 0>>, payments |-> 0, runs |-> 0]

\* save_payments with one record of a corridor, successful.
SaveCorridorPayment(asset_code, amount, created_at) ==
    /\ Len(payments) < MaxPayments
    /\ LET payment == CorridorPayment(Len(payments) + 1, asset_code, amount, created_at)
           res == InsertPayment(payments, payment)
       IN /\ payments' = res.rows
          /\ firstInserted' =
                IF res.error = "none" /\ ~\E f \in firstInserted : f.id = payment.id
                THEN firstInserted \cup {payment} ELSE firstInserted
    /\ UNCHANGED <<ingestion_state, now, save, cursorRead, lastSet>>
    /\ UNCHANGED <<cacheVars, keyVars, mainVars, valVars, muxVars, aggVars, hourlyVars, anchorVars, assetVars, apiVars>>

\* One run of aggregate over a range.
Aggregate(range) ==
    /\ hourly_corridor_metrics' = aggregate(hourly_corridor_metrics, payments, range)
    /\ lastAggregate' =
          [range |-> range, payments |-> Len(payments),
           runs |-> IF lastAggregate.payments = Len(payments) /\ lastAggregate.runs < MaxRuns
                    THEN lastAggregate.runs + 1
                    ELSE IF lastAggregate.payments = Len(payments) THEN lastAggregate.runs
                    ELSE 1]
    /\ UNCHANGED <<cacheVars, keyVars, dbVars, mainVars, valVars, muxVars, aggVars, anchorVars, assetVars, apiVars>>

(***************************************************************************)
(* Anchors and their metrics history (database.rs 176-198, 260-282,        *)
(* 438-498, 675-737).  f64 amounts and scores are modelled as integers.    *)
(* compute_anchor_metrics (crate::analytics) follows the contract of spec  *)
(* 4.3.                                                                    *)
(***************************************************************************)
MaxHistory == 2

AnchorIds == {"a1", "a2"}
Accounts == {"GA", "GB"}

NoneInt == [some |-> FALSE, v |-> 0]
SomeInt(x) == [some |-> TRUE, v |-> x]
unwrap_or(opt, default) == IF opt.some THEN opt.v ELSE default

NoAnchor == [exists |-> FALSE, stellar_account |-> "", total_transactions |-> 0,
             successful_transactions |-> 0, failed_transactions |-> 0,
             total_volume_usd |-> 0, avg_settlement_time_ms |-> 0,
             reliability_score |-> 0, status |-> ""]

\* Spec 4.3: the rates are percentages, 0 when total = 0; the score lies in
\* 0..100, grows with the success rate and falls with the settlement time;
\* the status is cut from the score by fixed thresholds, a tie giving the
\* lower status.
compute_anchor_metrics(total_transactions, successful_transactions, failed_transactions, avg_settlement_time_ms) ==
    LET success_rate == IF total_transactions = 0 THEN 0
                        ELSE (successful_transactions * 100) \div total_transactions
        failure_rate == IF total_transactions = 0 THEN 0
                        ELSE (failed_transactions * 100) \div total_transactions
        penalty == IF avg_settlement_time_ms.some
                   THEN avg_settlement_time_ms.v * 10 ELSE 0
        capped == IF success_rate > 100 THEN 100 ELSE success_rate
        score == IF capped > penalty THEN capped - penalty ELSE 0
    IN [success_rate |-> success_rate, failure_rate |-> failure_rate,
        reliability_score |-> score,
        status |-> IF score > 98 THEN "green"
                   ELSE IF score > 95 THEN "yellow" ELSE "red"]

\* INSERT INTO anchors (id, name, stellar_account, home_domain): the metric
\* columns take the values of an anchor without transactions.
create_anchor(table, id, stellar_account) ==
    LET metrics == compute_anchor_metrics(0, 0, 0, NoneInt)
    IN [table EXCEPT ![id] =
           [exists |-> TRUE, stellar_account |-> stellar_account,
            total_transactions |-> 0, successful_transactions |-> 0,
            failed_transactions |-> 0, total_volume_usd |-> 0,
            avg_settlement_time_ms |-> 0,
            reliability_score |-> metrics.reliability_score,
            status |-> metrics.status]]

\* The history left as it is: no row is inserted.
record_anchor_metrics_history_skipped(history, params) == history

\* INSERT INTO anchor_metrics_history ... RETURNING *
record_anchor_metrics_history(history, params) ==
    Append(history,
           [anchor_id |-> params.anchor_id,
            success_rate |-> params.success_rate,
            failure_rate |-> params.failure_rate,
            reliability_score |-> params.reliability_score,
            total_transactions |-> params.total_transactions,
            successful_transactions |-> params.successful_transactions,
            failed_transactions |-> params.failed_transactions,
            avg_settlement_time_ms |-> unwrap_or(params.avg_settlement_time_ms, 0),
            volume_usd |-> unwrap_or(params.volume_usd, 0)])

AnchorMetricsParams(anchor_id, metrics, total_transactions, successful_transactions, failed_transactions, avg_settlement_time_ms, volume_usd) ==
    [anchor_id |-> anchor_id, success_rate |-> metrics.success_rate,
     failure_rate |-> metrics.failure_rate,
     reliability_score |-> metrics.reliability_score,
     total_transactions |-> total_transactions,
     successful_transactions |-> successful_transactions,
     failed_transactions |-> failed_transactions,
     avg_settlement_time_ms |-> avg_settlement_time_ms, volume_usd |-> volume_usd]

\* The UPDATE of update_anchor_metrics.  $7 is bound to volume_usd.unwrap_or(0.0),
\* never to NULL, so COALESCE($7, total_volume_usd) is $7.
UpdateAnchorRow(row, total_transactions, successful_transactions, failed_transactions, avg_settlement_time_ms, volume_usd, metrics) ==
    [row EXCEPT !.total_transactions = total_transactions,
                !.successful_transactions = successful_transactions,
                !.failed_transactions = failed_transactions,
                !.avg_settlement_time_ms = unwrap_or(avg_settlement_time_ms, 0),
                !.reliability_score = metrics.reliability_score,
                !.status = metrics.status,
                !.total_volume_usd = unwrap_or(volume_usd, 0)]

\* update_anchor_metrics: fetch_one fails with RowNotFound when no row has the
\* id, and `?` returns before the history is written; the two statements are
\* not in one transaction, so a failing INSERT leaves the UPDATE in place.
update_anchor_metrics(table, history, anchor_id, total_transactions, successful_transactions, failed_transactions, avg_settlement_time_ms, volume_usd, history_ok) ==
    LET metrics == compute_anchor_metrics(total_transactions, successful_transactions,
                                          failed_transactions, avg_settlement_time_ms)
    IN IF ~table[anchor_id].exists
       THEN [ok |-> FALSE, anchors |-> table, history |-> history]
       ELSE [ok |-> history_ok,
             anchors |-> [table EXCEPT ![anchor_id] =
                            UpdateAnchorRow(@, total_transactions, successful_transactions,
                                            failed_transactions, avg_settlement_time_ms,
                                            volume_usd, metrics)],
             history |-> IF history_ok
                         THEN record_anchor_metrics_history(history,
                                 AnchorMetricsParams(anchor_id, metrics, total_transactions,
                                     successful_transactions, failed_transactions,
                                     avg_settlement_time_ms, volume_usd))
                         ELSE history]

\* update_anchor_from_rpc: every column is taken from params, the score and
\* the status included; a stellar_account without a row updates nothing.
update_anchor_from_rpc(table, params) ==
    [id \in AnchorIds |->
        IF table[id].exists /\ table[id].stellar_account = params.stellar_account
        THEN [table[id] EXCEPT
                 !.total_transactions = params.total_transactions,
                 !.successful_transactions = params.successful_transactions,
                 !.failed_transactions = params.failed_transactions,
                 !.total_volume_usd = params.total_volume_usd,
                 !.avg_settlement_time_ms = params.avg_settlement_time_ms,
                 !.reliability_score = params.reliability_score,
                 !.status = params.status]
        ELSE table[id]]

AnchorRpcUpdate(stellar_account, total_transactions, successful_transactions, failed_transactions, total_volume_usd, avg_settlement_time_ms, reliability_score, status) ==
    [stellar_account |-> stellar_account, total_transactions |-> total_transactions,
     successful_transactions |-> successful_transactions,
     failed_transactions |-> failed_transactions,
     total_volume_usd |-> total_volume_usd,
     avg_settlement_time_ms |-> avg_settlement_time_ms,
     reliability_score |-> reliability_score, status |-> status]

\* <<total, successful, failed>> passed by the callers
CounterSamples == {<<3, 2, 1>>}
SettlementSamples == {NoneInt, SomeInt(2)}
VolumeUsdSamples == {NoneInt, SomeInt(1)}
RpcSamples ==
    {AnchorRpcUpdate(acc, 3, 2, 1, 1, 0, 66, "red") : acc \in Accounts}
    \cup {AnchorRpcUpdate(acc, 3, 2, 1, 1, 0, 100, "green") : acc \in Accounts}

NoAnchorCall == [op |-> "none", anchor_id |-> "", counters |-> <<0, 0, 0>>,
                 volume_usd |-> NoneInt, ok |-> FALSE]

CreateAnchor(id, stellar_account) ==
    /\ ~anchors[id].exists
    /\ \A a \in AnchorIds : anchors[a].exists => anchors[a].stellar_account # stellar_account
    /\ anchors' = create_anchor(anchors, id, stellar_account)
    /\ anchorCall' = [NoAnchorCall EXCEPT !.op = "create_anchor", !.anchor_id = id,
                                          !.ok = TRUE]
    /\ UNCHANGED anchor_metrics_history
    /\ UNCHANGED <<cacheVars, keyVars, dbVars, mainVars, valVars, muxVars, aggVars,
                   hourlyVars, assetVars, apiVars>>

UpdateAnchorMetrics(anchor_id, counters, avg_settlement_time_ms, volume_usd, history_ok) ==
    LET r == update_anchor_metrics(anchors, anchor_metrics_history, anchor_id,
                                   counters[1], counters[2], counters[3],
                                   avg_settlement_time_ms, volume_usd, history_ok)
    IN /\ Len(anchor_metrics_history) < MaxHistory
       /\ anchors' = r.anchors
       /\ anchor_metrics_history' = r.history
       /\ anchorCall' = [op |-> "update_anchor_metrics", anchor_id |-> anchor_id,
                         counters |-> counters, volume_usd |-> volume_usd, ok |-> r.ok]
       /\ UNCHANGED <<cacheVars, keyVars, dbVars, mainVars, valVars, muxVars, aggVars,
                      hourlyVars, assetVars, apiVars>>

UpdateAnchorFromRpc(params) ==
    /\ anchors' = update_anchor_from_rpc(anchors, params)
    /\ anchorCall' = [NoAnchorCall EXCEPT !.op = "update_anchor_from_rpc", !.ok = TRUE]
    /\ UNCHANGED anchor_metrics_history
    /\ UNCHANGED <<cacheVars, keyVars, dbVars, mainVars, valVars, muxVars, aggVars,
                   hourlyVars, assetVars, apiVars>>

(***************************************************************************)
(* Assets (database.rs 532-554, 578-590, 621-659).  The table has one row  *)
(* per (asset_code, asset_issuer): the conflict target of create_asset.    *)
(***************************************************************************)
AssetCodes == {"EURC", "USDC"}
AssetIssuers == {"GI1", "GI2"}

\* ORDER BY asset_code ASC on the sampled codes
AssetCodeRank(asset_code) == IF asset_code = "EURC" THEN 1 ELSE 2
AnchorIdRank(anchor_id) == IF anchor_id = "a1" THEN 1 ELSE 2

Asset(id, anchor_id, asset_code, asset_issuer) ==
    [id |-> id, anchor_id |-> anchor_id, asset_code |-> asset_code,
     asset_issuer |-> asset_issuer]

NoAsset == Asset(0, "", "", "")

\* The id of Uuid::new_v4(): one no row has.
NewAssetId(table) == Cardinality(table) + 1

\* create_asset with a plain INSERT: a second row for a pair already there.
create_asset_without_conflict_target(table, anchor_id, asset_code, asset_issuer) ==
    LET row == Asset(NewAssetId(table), anchor_id, asset_code, asset_issuer)
    IN [assets |-> table \cup {row}, asset |-> row]

\* INSERT ... ON CONFLICT (asset_code, asset_issuer) DO UPDATE SET anchor_id =
\* EXCLUDED.anchor_id RETURNING *
create_asset(table, anchor_id, asset_code, asset_issuer) ==
    LET old == {r \in table : r.asset_code = asset_code /\ r.asset_issuer = asset_issuer}
    IN IF old = {}
       THEN LET row == Asset(NewAssetId(table), anchor_id, asset_code, asset_issuer)
            IN [assets |-> table \cup {row}, asset |-> row]
       ELSE LET row == [(CHOOSE r \in old : TRUE) EXCEPT !.anchor_id = anchor_id]
            IN [assets |-> (table \ old) \cup {row}, asset |-> row]

RECURSIVE Orderings(_)
\* every sequence that lists the rows of a set once
Orderings(rows) ==
    IF rows = {} THEN {<<>>}
    ELSE UNION {{<<r>> \o rest : rest \in Orderings(rows \ {r})} : r \in rows}

\* The results a SELECT may return for ORDER BY asset_code ASC: rows of equal
\* asset_code come in any order.
OrderByAssetCode(rows) ==
    {s \in Orderings(rows) :
        \A i \in 1..(Len(s) - 1) :
            AssetCodeRank(s[i].asset_code) <= AssetCodeRank(s[i + 1].asset_code)}

\* ORDER BY anchor_id, asset_code ASC
OrderByAnchorIdAssetCode(rows) ==
    {s \in Orderings(rows) :
        \A i \in 1..(Len(s) - 1) :
            \/ AnchorIdRank(s[i].anchor_id) < AnchorIdRank(s[i + 1].anchor_id)
            \/ /\ s[i].anchor_id = s[i + 1].anchor_id
               /\ AssetCodeRank(s[i].asset_code) <= AssetCodeRank(s[i + 1].asset_code)}

\* get_assets_by_anchor: the possible results
get_assets_by_anchor(table, anchor_id) ==
    OrderByAssetCode({r \in table : r.anchor_id = anchor_id})

\* The loop of get_assets_by_anchors: each row is pushed to its anchor's entry.
GroupByAnchor(fetched) ==
    [a \in {fetched[i].anchor_id : i \in 1..Len(fetched)} |->
        SelectSeq(fetched, LAMBDA r : r.anchor_id = a)]

\* get_assets_by_anchors that inserts an entry for every requested anchor.
get_assets_by_anchors_with_empty_entries(table, anchor_ids) ==
    IF anchor_ids = <<>> THEN {<<>>}
    ELSE LET ids == {anchor_ids[i] : i \in 1..Len(anchor_ids)}
         IN {[a \in ids |-> SelectSeq(fetched, LAMBDA r : r.anchor_id = a)] :
                fetched \in OrderByAnchorIdAssetCode({r \in table : r.anchor_id \in ids})}

\* get_assets_by_anchors: the possible results; the empty list returns the
\* empty map without a query.
get_assets_by_anchors(table, anchor_ids) ==
    IF anchor_ids = <<>> THEN {<<>>}
    ELSE LET ids == {anchor_ids[i] : i \in 1..Len(anchor_ids)}
         IN {GroupByAnchor(fetched) :
                fetched \in OrderByAnchorIdAssetCode({r \in table : r.anchor_id \in ids})}

AnchorIdLists ==
    {<<>>} \cup {<<a>> : a \in AnchorIds} \cup {<<a, b>> : a, b \in AnchorIds}

NoAssetCall == [op |-> "none", anchor_ids |-> <<>>, existed |-> FALSE,
                asset |-> NoAsset, map |-> <<>>]

CreateAsset(anchor_id, asset_code, asset_issuer) ==
    LET r == create_asset(assets, anchor_id, asset_code, asset_issuer)
    IN /\ assets' = r.assets
       /\ assetCall' = [NoAssetCall EXCEPT
                           !.op = "create_asset", !.anchor_ids = <<anchor_id>>,
                           !.existed = (\E row \in assets :
                                           /\ row.asset_code = asset_code
                                           /\ row.asset_issuer = asset_issuer),
                           !.asset = r.asset]
       /\ UNCHANGED <<cacheVars, keyVars, dbVars, mainVars, valVars, muxVars, aggVars,
                      hourlyVars, anchorVars, apiVars>>

GetAssetsByAnchors(anchor_ids) ==
    /\ \E result \in get_assets_by_anchors(assets, anchor_ids) :
          assetCall' = [NoAssetCall EXCEPT
                           !.op = "get_assets_by_anchors", !.anchor_ids = anchor_ids,
                           !.map = result]
    /\ UNCHANGED assets
    /\ UNCHANGED <<cacheVars, keyVars, dbVars, mainVars, valVars, muxVars, aggVars,
                   hourlyVars, anchorVars, apiVars>>

(***************************************************************************)
(* API keys (database.rs 1332-1479).  Times are positions of a logical     *)
(* clock behind Utc::now().  generate_api_key and hash_api_key are not in  *)
(* this file: the n-th generated plain key is n, and its hash is a value   *)
(* of its own that no other plain key has.  The columns key_prefix,        *)
(* created_at and revoked_at are left out.                                 *)
(***************************************************************************)
\* MaxKeys: the keys that calls made one after the other create, the last of
\* them by a rotation.  The table has room for one more key, so that each of
\* two overlapping rotations of a key can insert its own.
MaxKeys == 2
MaxApiClock == 1

Wallets == {"w1", "w2"}
Rotators == {"r1", "r2"}
SerialKeyIds == 1..MaxKeys
KeyIds == 1..(MaxKeys + Cardinality(Rotators) - 1)

hash_api_key(plain_key) == <<"sha256", plain_key>>

\* expires_at: NULL, an RFC 3339 text of time t, or a text that
\* DateTime::parse_from_rfc3339 rejects (a date of time t written without
\* its offset).
NoExpiry == [some |-> FALSE, rfc3339 |-> TRUE, t |-> 0]
Expiry(t) == [some |-> TRUE, rfc3339 |-> TRUE, t |-> t]
ExpiryWithoutOffset(t) == [some |-> TRUE, rfc3339 |-> FALSE, t |-> t]

NoApiKey == [exists |-> FALSE, name |-> "", key_hash |-> <<>>, wallet_address |-> "",
             scopes |-> "", status |-> "", expires_at |-> NoExpiry,
             last_used_at |-> NoneInt]

CreateApiKeyRequest(name, scopes, expires_at) ==
    [name |-> name, scopes |-> scopes, expires_at |-> expires_at]

\* The id of Uuid::new_v4() and the key of generate_api_key(): new ones.
NewKeyId(table) == Cardinality({id \in KeyIds : table[id].exists}) + 1

\* INSERT INTO api_keys (...) VALUES (..., 'active', ...); the SELECT that
\* follows reads the row back.
create_api_key(table, wallet_address, req) ==
    LET id == NewKeyId(table)
    IN [table EXCEPT ![id] =
           [exists |-> TRUE, name |-> req.name, key_hash |-> hash_api_key(id),
            wallet_address |-> wallet_address,
            scopes |-> IF req.scopes.some THEN req.scopes.s ELSE "read",
            status |-> "active", expires_at |-> req.expires_at,
            last_used_at |-> NoneInt]]

\* SELECT * FROM api_keys WHERE id = $1 AND wallet_address = $2: the id
\* found, or 0.
get_api_key_by_id(table, id, wallet_address) ==
    IF table[id].exists /\ table[id].wallet_address = wallet_address THEN id ELSE 0

\* Lines 1411-1419: the key is expired when its expires_at parses and lies
\* before now; a text that does not parse is passed over.
IsExpired(expires_at, current) ==
    expires_at.some /\ expires_at.rfc3339 /\ expires_at.t < current

\* validate_api_key: the active row of the key's hash; None when it is
\* expired; otherwise last_used_at is written and the row returned.
validate_api_key(table, plain_key, current) ==
    LET found == {id \in KeyIds : /\ table[id].exists
                                  /\ table[id].key_hash = hash_api_key(plain_key)
                                  /\ table[id].status = "active"}
    IN IF found = {} THEN [key |-> 0, api_keys |-> table]
       ELSE LET id == CHOOSE k \in found : TRUE
            IN IF IsExpired(table[id].expires_at, current)
               THEN [key |-> 0, api_keys |-> table]
               ELSE [key |-> id,
                     api_keys |-> [table EXCEPT ![id].last_used_at = SomeInt(current)]]

\* revoke_api_key whose UPDATE does not ask for status = 'active'.
revoke_api_key_any_status(table, id, wallet_address, current) ==
    IF table[id].exists /\ table[id].wallet_address = wallet_address
    THEN [ok |-> TRUE,
          api_keys |-> [table EXCEPT ![id].status = "revoked"]]
    ELSE [ok |-> FALSE, api_keys |-> table]

\* revoke_api_key whose UPDATE does not ask for the wallet.
revoke_api_key_any_wallet(table, id, wallet_address, current) ==
    IF table[id].exists /\ table[id].status = "active"
    THEN [ok |-> TRUE,
          api_keys |-> [table EXCEPT ![id].status = "revoked"]]
    ELSE [ok |-> FALSE, api_keys |-> table]

\* revoke_api_key: UPDATE ... WHERE id = $2 AND wallet_address = $3 AND
\* status = 'active'; true when a row was changed.
revoke_api_key(table, id, wallet_address, current) ==
    IF /\ table[id].exists
       /\ table[id].wallet_address = wallet_address
       /\ table[id].status = "active"
    THEN [ok |-> TRUE,
          api_keys |-> [table EXCEPT ![id].status = "revoked"]]
    ELSE [ok |-> FALSE, api_keys |-> table]

\* The SELECT of rotate_api_key (lines 1452-1458): the active row of the id
\* and the wallet, or 0.
RotateSelectOld(table, id, wallet_address) ==
    IF /\ table[id].exists
       /\ table[id].wallet_address = wallet_address
       /\ table[id].status = "active"
    THEN id ELSE 0

\* <<wallet_address, req>> of the create_api_key calls made
CreateSamples ==
    {<<"w1", CreateApiKeyRequest("n1", NoString, NoExpiry)>>,
     <<"w1", CreateApiKeyRequest("n2", SomeString("write"), Expiry(0))>>,
     <<"w1", CreateApiKeyRequest("n2", SomeString("write"), ExpiryWithoutOffset(0))>>,
     <<"w2", CreateApiKeyRequest("n1", NoString, NoExpiry)>>}

\* id is the id argument, or the plain key of validate_api_key.
NoKeyCall == [op |-> "none", id |-> 0, wallet_address |-> "", ok |-> FALSE, key |-> 0]

\* A caller's rotate_api_key: where it stands, its arguments, the row it read
\* (old_key: its id, or 0; the name, scopes and expires_at it carries are
\* columns no statement changes) and the key it returns (0 for None).
IdleRotate == [pc |-> "idle", id |-> 0, wallet_address |-> "", old_key |-> 0, key |-> 0]

ApiClockTick ==
    /\ apiNow < MaxApiClock
    /\ apiNow' = apiNow + 1
    /\ UNCHANGED <<api_keys, keyCall, rot>>
    /\ UNCHANGED <<cacheVars, keyVars, dbVars, mainVars, valVars, muxVars, aggVars,
                   hourlyVars, anchorVars, assetVars>>

\* A direct call leaves the last id to a rotation.
CreateApiKey(wallet_address, req) ==
    /\ NewKeyId(api_keys) < MaxKeys
    /\ api_keys' = create_api_key(api_keys, wallet_address, req)
    /\ keyCall' = [NoKeyCall EXCEPT !.op = "create_api_key", !.ok = TRUE]
    /\ UNCHANGED <<apiNow, rot>>
    /\ UNCHANGED <<cacheVars, keyVars, dbVars, mainVars, valVars, muxVars, aggVars,
                   hourlyVars, anchorVars, assetVars>>

GetApiKeyById(id, wallet_address) ==
    /\ keyCall' = [NoKeyCall EXCEPT !.op = "get_api_key_by_id", !.id = id,
                                    !.wallet_address = wallet_address,
                                    !.key = get_api_key_by_id(api_keys, id, wallet_address)]
    /\ UNCHANGED <<api_keys, apiNow, rot>>
    /\ UNCHANGED <<cacheVars, keyVars, dbVars, mainVars, valVars, muxVars, aggVars,
                   hourlyVars, anchorVars, assetVars>>

ValidateApiKey(plain_key) ==
    LET r == validate_api_key(api_keys, plain_key, apiNow)
    IN /\ api_keys' = r.api_keys
       /\ keyCall' = [NoKeyCall EXCEPT !.op = "validate_api_key", !.id = plain_key,
                                       !.key = r.key]
       /\ UNCHANGED <<apiNow, rot>>
       /\ UNCHANGED <<cacheVars, keyVars, dbVars, mainVars, valVars, muxVars, aggVars,
                      hourlyVars, anchorVars, assetVars>>

RevokeApiKey(id, wallet_address) ==
    LET r == revoke_api_key(api_keys, id, wallet_address, apiNow)
    IN /\ api_keys' = r.api_keys
       /\ keyCall' = [NoKeyCall EXCEPT !.op = "revoke_api_key", !.id = id,
                                       !.wallet_address = wallet_address, !.ok = r.ok]
       /\ UNCHANGED <<apiNow, rot>>
       /\ UNCHANGED <<cacheVars, keyVars, dbVars, mainVars, valVars, muxVars, aggVars,
                      hourlyVars, anchorVars, assetVars>>

\* rotate_api_key run without another call in between: None when no active
\* row has the id and the wallet; otherwise the old key is revoked and
\* create_api_key is called with its name, scopes and expires_at, and either
\* returns the new key or fails, the revocation staying.  ok: the call
\* returned Ok; key: the new key, or 0.
RotateApiKey(id, wallet_address, create_ok) ==
    LET old == RotateSelectOld(api_keys, id, wallet_address)
        revoked == revoke_api_key(api_keys, id, wallet_address, apiNow).api_keys
        req == CreateApiKeyRequest(api_keys[id].name, SomeString(api_keys[id].scopes),
                                   api_keys[id].expires_at)
    IN /\ (old # 0 /\ create_ok) => NewKeyId(api_keys) \in SerialKeyIds
       /\ api_keys' = IF old = 0 THEN api_keys
                      ELSE IF create_ok THEN create_api_key(revoked, wallet_address, req)
                      ELSE revoked
       /\ keyCall' = [NoKeyCall EXCEPT
                         !.op = "rotate_api_key", !.id = id,
                         !.wallet_address = wallet_address,
                         !.ok = (old = 0 \/ create_ok),
                         !.key = IF old # 0 /\ create_ok THEN NewKeyId(api_keys) ELSE 0]
       /\ UNCHANGED <<apiNow, rot>>
       /\ UNCHANGED <<cacheVars, keyVars, dbVars, mainVars, valVars, muxVars, aggVars,
                      hourlyVars, anchorVars, assetVars>>

\* The same call step by step, for callers that run at the same time.
\* Lines 1452-1463: the SELECT of the old key; None when there is no active
\* row of the id and the wallet.
RotateApiKeySelect(c, id, wallet_address) ==
    /\ rot[c].pc = "idle"
    /\ LET old == RotateSelectOld(api_keys, id, wallet_address)
       IN rot' = [rot EXCEPT ![c] =
                     [IdleRotate EXCEPT !.pc = IF old = 0 THEN "done" ELSE "revoke",
                                        !.id = id, !.wallet_address = wallet_address,
                                        !.old_key = old]]
    /\ UNCHANGED <<api_keys, apiNow, keyCall>>
    /\ UNCHANGED <<cacheVars, keyVars, dbVars, mainVars, valVars, muxVars, aggVars,
                   hourlyVars, anchorVars, assetVars>>

\* Line 1465: self.revoke_api_key(id, wallet_address).await?; the bool it
\* returns is dropped.
RotateApiKeyRevoke(c) ==
    /\ rot[c].pc = "revoke"
    /\ LET r == revoke_api_key(api_keys, rot[c].id, rot[c].wallet_address, apiNow)
       IN /\ api_keys' = r.api_keys
          /\ rot' = [rot EXCEPT ![c].pc = "create"]
    /\ UNCHANGED <<apiNow, keyCall>>
    /\ UNCHANGED <<cacheVars, keyVars, dbVars, mainVars, valVars, muxVars, aggVars,
                   hourlyVars, anchorVars, assetVars>>

\* Lines 1467-1478: create_api_key with the old key's name, scopes and
\* expires_at; Some(new key) is returned.
RotateApiKeyCreate(c) ==
    /\ rot[c].pc = "create"
    /\ NewKeyId(api_keys) \in KeyIds
    /\ api_keys' = create_api_key(api_keys, rot[c].wallet_address,
                      CreateApiKeyRequest(api_keys[rot[c].old_key].name,
                                          SomeString(api_keys[rot[c].old_key].scopes),
                                          api_keys[rot[c].old_key].expires_at))
    /\ rot' = [rot EXCEPT ![c].pc = "done", ![c].key = NewKeyId(api_keys)]
    /\ UNCHANGED <<apiNow, keyCall>>
    /\ UNCHANGED <<cacheVars, keyVars, dbVars, mainVars, valVars, muxVars, aggVars,
                   hourlyVars, anchorVars, assetVars>>

\* Lines 1467-1476: the INSERT of create_api_key fails and `?` returns the
\* error; the revocation made before stays.
RotateApiKeyCreateErr(c) ==
    /\ rot[c].pc = "create"
    /\ rot' = [rot EXCEPT ![c].pc = "failed"]
    /\ UNCHANGED <<api_keys, apiNow, keyCall>>
    /\ UNCHANGED <<cacheVars, keyVars, dbVars, mainVars, valVars, muxVars, aggVars,
                   hourlyVars, anchorVars, assetVars>>

\* The caller takes the result; the caller may call again.
RotateApiKeyReturn(c) ==
    /\ rot[c].pc \in {"done", "failed"}
    /\ rot' = [rot EXCEPT ![c] = IdleRotate]
    /\ UNCHANGED <<api_keys, apiNow, keyCall>>
    /\ UNCHANGED <<cacheVars, keyVars, dbVars, mainVars, valVars, muxVars, aggVars,
                   hourlyVars, anchorVars, assetVars>>

Init ==
    /\ cacheStore = {}
    /\ cq = [c \in Callers |-> IdleCall]
    /\ built = <<>>
    /\ ingestion_state = {}
    /\ payments = <<>>
    /\ now = 0
    /\ save = [p \in Procs |-> IdleSave]
    /\ cursorRead = NoRead
    /\ lastSet = [t \in Tasks |-> NoCursor]
    /\ firstInserted = {}
    /\ run = [r \in Procs |-> IdleRun]
    /\ failedFrom = {}
    /\ mainPc = "spawn_sync"
    /\ taskPc = "unspawned"
    /\ tickReady = FALSE
    /\ shutdownSent = FALSE
    /\ signalAt = "none"
    /\ lastCycleFailed = FALSE
    /\ vcall = IdleValidation
    /\ analytics = NoAnalytics
    /\ aggregation_jobs = [j \in JobIds |-> NoJob]
    /\ aggCall = NoAggCall
    /\ hourly_corridor_metrics = {}
    /\ lastAggregate = NoAggregate
    /\ anchors = [a \in AnchorIds |-> NoAnchor]
    /\ anchor_metrics_history = <<>>
    /\ anchorCall = NoAnchorCall
    /\ assets = {}
    /\ assetCall = NoAssetCall
    /\ api_keys = [id \in KeyIds |-> NoApiKey]
    /\ apiNow = 0
    /\ keyCall = NoKeyCall
    /\ rot = [c \in Rotators |-> IdleRotate]

NextKey == \E key_prefix \in KeyPrefixes, params \in ParamObjects :
              BuildParamCacheKey(key_prefix, params)

NextCache ==
    \/ \E c \in Callers, key \in RawKeys, ttl \in Ttls : CachedQueryCall(c, key, ttl)
    \/ \E c \in Callers, params \in CallParams,
          ttl \in Ttls : CachedQueryWithParamsCall(c, <<"a">>, params, ttl)
    \/ \E c \in Callers : CachedQueryGet(c)
    \/ \E c \in Callers : CachedQueryProduce(c)
    \/ \E c \in Callers : CachedQuerySet(c)
    \/ \E c \in Callers : CachedQueryReturn(c)

NextDb ==
    \/ \E task_name \in Tasks : GetIngestionCursor(task_name)
    \/ \E task_name \in Tasks, last_cursor \in SamplePositions :
          UpdateIngestionCursor(task_name, last_cursor)
    \/ \E task_name \in Tasks, last_cursor \in SamplePositions :
          UpdateIngestionCursorErr(task_name, last_cursor)
    \/ \E p \in Procs, batch \in SampleBatches : SavePaymentsCall(p, batch)
    \/ \E p \in Procs : SavePaymentsInsert(p)
    \/ \E p \in Procs : SavePaymentsExecuteErr(p)
    \/ \E p \in Procs : SavePaymentsOk(p)
    \/ \E p \in Procs : SavePaymentsReturn(p)

Next ==
    \/ MainSpawnSyncTask
    \/ MainInitialSyncStart
    \/ MainInitialSyncReturn
    \/ MainServe
    \/ MainBindErr
    \/ MainTriggerShutdown
    \/ MainStep1
    \/ MainStep2
    \/ MainStep3
    \/ MainStep4
    \/ TimerElapse
    \/ SyncTaskSelectTick
    \/ SyncTaskCycleReturn
    \/ SyncTaskSelectShutdown
    \/ \E r \in Procs : IngestReadCursor(r)
    \/ \E r \in Procs : IngestFetch(r)
    \/ \E r \in Procs : IngestFetchErr(r)
    \/ \E r \in Procs : RunnerActive(r) /\ SavePaymentsInsert(r)
    \/ \E r \in Procs : RunnerActive(r) /\ SavePaymentsExecuteErr(r)
    \/ \E r \in Procs : RunnerActive(r) /\ SavePaymentsOk(r)
    \/ \E r \in Procs : IngestAfterSave(r)
    \/ \E r \in Procs : IngestAdvanceCursor(r)
    \/ \E r \in Procs : IngestAdvanceCursorErr(r)

NextValidation ==
    \/ \E success_rate_min \in RateSamples, success_rate_max \in RateSamples,
          volume_min \in VolumeSamples, volume_max \in VolumeSamples :
          ValidateCorridorFilters(success_rate_min, success_rate_max, volume_min, volume_max)
    \/ ValidateCorridorFiltersReturn

NextMuxed ==
    \/ \E pair \in SamplePairs : SavePaymentsOne(pair[1], pair[2])
    \/ \E top_limit \in TopLimits : GetMuxedAnalytics(top_limit)

NextAggregation ==
    \/ \E job_id \in JobIds : CreateAggregationJob(job_id, "hourly")
    \/ \E job_id \in JobIds, status \in StatusArgs, error_message \in {"none", "e1"} :
          UpdateAggregationJobStatus(job_id, status, error_message)
    \/ \E job_id \in JobIds, last_hour \in Hours : UpdateLastProcessedHour(job_id, last_hour)
    \/ \E job_id \in JobIds : IncrementJobRetryCount(job_id)

NextJobManager ==
    \/ \E job_id \in JobIds, job_type \in {"hourly", "daily"} :
          StartJobCreate(job_id, job_type)
    \/ \E job_id \in JobIds : StartJobRun(job_id)
    \/ \E job_id \in JobIds, last_hour \in Hours : CompleteJob(job_id, last_hour)
    \/ \E job_id \in JobIds, error \in {"e1", "e2"} : FailJob(job_id, error)

NextAnchor ==
    \/ \E id \in AnchorIds, stellar_account \in Accounts : CreateAnchor(id, stellar_account)
    \/ \E anchor_id \in AnchorIds, counters \in CounterSamples,
          avg_settlement_time_ms \in SettlementSamples,
          volume_usd \in VolumeUsdSamples, history_ok \in BOOLEAN :
          UpdateAnchorMetrics(anchor_id, counters, avg_settlement_time_ms, volume_usd,
                              history_ok)
    \/ \E params \in RpcSamples : UpdateAnchorFromRpc(params)

NextAsset ==
    \/ \E anchor_id \in AnchorIds, asset_code \in AssetCodes, asset_issuer \in AssetIssuers :
          CreateAsset(anchor_id, asset_code, asset_issuer)
    \/ \E anchor_ids \in AnchorIdLists : GetAssetsByAnchors(anchor_ids)

NextApiKey ==
    \/ ApiClockTick
    \/ \E sample \in CreateSamples : CreateApiKey(sample[1], sample[2])
    \/ \E id \in SerialKeyIds, wallet_address \in Wallets :
          GetApiKeyById(id, wallet_address)
    \/ \E plain_key \in 0..MaxKeys : ValidateApiKey(plain_key)
    \/ \E id \in SerialKeyIds, wallet_address \in Wallets :
          RevokeApiKey(id, wallet_address)
    \/ \E id \in SerialKeyIds, wallet_address \in Wallets, create_ok \in BOOLEAN :
          RotateApiKey(id, wallet_address, create_ok)

NextRotate ==
    \/ \E sample \in CreateSamples : CreateApiKey(sample[1], sample[2])
    \/ \E c \in Rotators, id \in KeyIds, wallet_address \in Wallets :
          RotateApiKeySelect(c, id, wallet_address)
    \/ \E c \in Rotators : RotateApiKeyRevoke(c)
    \/ \E c \in Rotators : RotateApiKeyCreate(c)
    \/ \E c \in Rotators : RotateApiKeyCreateErr(c)
    \/ \E c \in Rotators : RotateApiKeyReturn(c)

NextHourly ==
    \/ \E p \in SampleCorridorPayments : SaveCorridorPayment(p[1], p[2], p[3])
    \/ \E range \in HourRanges : Aggregate(range)

Spec == Init /\ [][Next]_vars
\* A step of the cycle sync_task is in: sync_all_metrics goes on and returns.
SyncTaskCycleStep ==
    \/ IngestReadCursor("sync_task")
    \/ IngestFetchShortLedger("sync_task")
    \/ IngestFetchErr("sync_task")
    \/ RunnerActive("sync_task") /\ SavePaymentsInsert("sync_task")
    \/ RunnerActive("sync_task") /\ SavePaymentsExecuteErr("sync_task")
    \/ RunnerActive("sync_task") /\ SavePaymentsOk("sync_task")
    \/ IngestAfterSave("sync_task")
    \/ IngestAdvanceCursor("sync_task")
    \/ IngestAdvanceCursorErr("sync_task")
    \/ SyncTaskCycleReturn

\* The spawned task is scheduled: a started cycle returns, and select! polls
\* its ready branches in random order, so that a branch ready at every select
\* point is taken at one of them.  main() is given no fairness: its waits
\* last as long as their timeouts allow.
SyncTaskFairness ==
    /\ WF_vars(SyncTaskCycleStep)
    /\ SF_vars(SyncTaskSelectShutdown)

\* main() and the spawned task as in Next, on the shorter ledger.
NextLive ==
    \/ MainSpawnSyncTask
    \/ MainInitialSyncStart
    \/ MainInitialSyncReturn
    \/ MainServe
    \/ MainBindErr
    \/ MainTriggerShutdown
    \/ MainStep1
    \/ MainStep2
    \/ MainStep3
    \/ MainStep4
    \/ TimerElapse
    \/ SyncTaskSelectTick
    \/ SyncTaskCycleReturn
    \/ SyncTaskSelectShutdown
    \/ \E r \in Procs : IngestReadCursor(r)
    \/ \E r \in Procs : IngestFetchShortLedger(r)
    \/ \E r \in Procs : IngestFetchErr(r)
    \/ \E r \in Procs : RunnerActive(r) /\ SavePaymentsInsert(r)
    \/ \E r \in Procs : RunnerActive(r) /\ SavePaymentsExecuteErr(r)
    \/ \E r \in Procs : RunnerActive(r) /\ SavePaymentsOk(r)
    \/ \E r \in Procs : IngestAfterSave(r)
    \/ \E r \in Procs : IngestAdvanceCursor(r)
    \/ \E r \in Procs : IngestAdvanceCursorErr(r)

SpecLive == Init /\ [][NextLive]_vars /\ SyncTaskFairness
SpecAnchor == Init /\ [][NextAnchor]_vars
SpecAsset == Init /\ [][NextAsset]_vars
SpecApiKey == Init /\ [][NextApiKey]_vars
SpecRotate == Init /\ [][NextRotate]_vars
SpecHourly == Init /\ [][NextHourly]_vars
SpecJobManager == Init /\ [][NextJobManager]_vars
SpecAggregation == Init /\ [][NextAggregation]_vars
SpecMuxed == Init /\ [][NextMuxed]_vars
SpecValidation == Init /\ [][NextValidation]_vars
SpecKey == Init /\ [][NextKey]_vars
SpecCache == Init /\ [][NextCache]_vars
SpecDb == Init /\ [][NextDb]_vars

(***************************************************************************)
(* Claims about cached_query and build_param_cache_key.                    *)
(***************************************************************************)
Finished(c) == cq[c].pc = "done"

\* C1: on a cache hit cached_query returns the cached value, and has neither
\* invoked the producer nor written to the cache.
C1_HitReturnsCached ==
    \A c \in Callers :
        (Finished(c) /\ cq[c].got = "some") =>
            /\ cq[c].result = Ok(cq[c].cached)
            /\ cq[c].producerCalls = 0
            /\ cq[c].sets = <<>>

C1_Witness ==
    \E c \in Callers :
        /\ Finished(c) /\ cq[c].got = "some" /\ cq[c].result.kind = "ok"
        /\ \E e \in cacheStore : e.key = cq[c].key /\ e.value = cq[c].cached

\* C2: on a cache miss the producer is invoked exactly once; when it yields a
\* value, exactly one cache.set is attempted, of that value under the call's
\* key and ttl, and the value is returned to the caller.
C2_MissProducesOnceSetsOnce ==
    \A c \in Callers :
        /\ (cq[c].pc \in {"set", "done"} /\ cq[c].got = "none") => cq[c].producerCalls = 1
        /\ (Finished(c) /\ cq[c].got = "none" /\ cq[c].produced.kind = "ok") =>
              /\ cq[c].sets = <<[key |-> cq[c].key, value |-> cq[c].produced.value,
                                 ttl |-> cq[c].ttl]>>
              /\ cq[c].result = Ok(cq[c].produced.value)

C2_Witness ==
    \E c \in Callers :
        /\ Finished(c) /\ cq[c].got = "none" /\ cq[c].produced.kind = "ok"
        /\ cq[c].ttl = MaxTtl /\ cq[c].setOk = "ok"
        /\ [key |-> cq[c].key, value |-> cq[c].produced.value, ttl |-> MaxTtl] \in cacheStore

\* C3: a failed cache.set is not propagated: the call still returns Ok with
\* the producer's value.
C3_SetFailureSwallowed ==
    \A c \in Callers :
        (Finished(c) /\ cq[c].setOk = "failed") =>
            /\ cq[c].result.kind = "ok"
            /\ cq[c].result.value = cq[c].produced.value
            /\ cq[c].produced.kind = "ok"

C3_Witness ==
    \E c \in Callers :
        /\ Finished(c) /\ cq[c].setOk = "failed" /\ cq[c].result.kind = "ok"
        /\ ~\E e \in cacheStore : e.key = cq[c].key

\* C4: a failed cache.get is returned to the caller as an error; it is not
\* taken for a miss: no producer call, no cache write.
C4_GetFailurePropagated ==
    \A c \in Callers :
        cq[c].got = "err" =>
            /\ Finished(c)
            /\ cq[c].result = Err("cache_get")
            /\ cq[c].producerCalls = 0
            /\ cq[c].sets = <<>>

C4_Witness ==
    \E c \in Callers : Finished(c) /\ cq[c].got = "err" /\ cq[c].result.kind = "err"

StartsWith(s, prefix) ==
    Len(s) >= Len(prefix) /\ SubSeq(s, 1, Len(prefix)) = prefix

KeyRest(b) == SubSeq(b.key, Len(b.prefix) + 2, Len(b.key))

\* C5: the key of every call begins with prefix + ":", and the rest of the key
\* depends only on the serialized form of the params: calls whose params
\* serialize alike get the same rest (and, for equal prefixes, the same key).
C5_KeyDeterminedBySerialization ==
    \A i, j \in DOMAIN built :
        /\ StartsWith(built[i].key, built[i].prefix \o <<":">>)
        /\ ToJson(built[i].params) = ToJson(built[j].params) =>
              /\ KeyRest(built[i]) = KeyRest(built[j])
              /\ built[i].prefix = built[j].prefix => built[i].key = built[j].key

C5_Witness ==
    \E i, j \in DOMAIN built :
        /\ i # j
        /\ built[i].params # built[j].params
        /\ built[i].params.serializable
        /\ ToJson(built[i].params) = ToJson(built[j].params)
        /\ built[i].prefix = built[j].prefix
        /\ built[i].key = built[j].key

(***************************************************************************)
(* Claims about the payments and ingestion_state tables and the cycles.    *)
(***************************************************************************)
RowsWithId(id) == {k \in DOMAIN payments : payments[k].id = id}

\* C6: the payments table holds exactly one row per payment id ever
\* inserted, equal to the first record inserted with that id; an insert of a
\* known id is no error, adds no row and alters none.
C6_PaymentsKeepFirstInsert ==
    /\ \A f \in firstInserted :
          /\ Cardinality(RowsWithId(f.id)) = 1
          /\ \E k \in DOMAIN payments : payments[k] = f
    /\ \A k \in DOMAIN payments : payments[k] \in firstInserted
    /\ \A p \in Procs : save[p].error # "constraint"

C6_Witness ==
    \E p \in Procs :
        /\ save[p].pc = "ok" /\ save[p].stored = 2
        /\ payments = <<LedgerRecord(2)>>
        /\ Payment(2, "GOTHER", 20) \notin firstInserted

C8_CursorReadsLastSet ==
    /\ \A t \in Tasks :
          /\ get_ingestion_cursor(ingestion_state, t) = lastSet[t]
          /\ Cardinality({s \in ingestion_state : s.task_name = t}) <= 1
    /\ cursorRead.task \in Tasks => cursorRead.result = lastSet[cursorRead.task]

C8_Witness ==
    /\ cursorRead.task = "payments" /\ cursorRead.result = SomeCursor(2)
    /\ now = 2
    /\ Cardinality(ingestion_state) = 1
    /\ lastSet["trades"] = NoCursor

\* C9: the stored cursor of a task never moves backwards: every write stores
\* a position at least equal to the one stored before.
C9_CursorMonotonic ==
    [][\A t \in Tasks :
          (get_ingestion_cursor(ingestion_state, t).some
           /\ get_ingestion_cursor(ingestion_state', t).some) =>
              get_ingestion_cursor(ingestion_state', t).cursor
                 >= get_ingestion_cursor(ingestion_state, t).cursor]_vars

Executing(r) == run[r].pc \in {"read", "fetch", "save", "advance"}

\* C10: at no time are two executions of sync_all_metrics in progress.
C10_SingleFlight == Cardinality({r \in Procs : Executing(r)}) <= 1


(***************************************************************************)
(* Claims about the background loop and the shutdown signal (main.rs).     *)
(***************************************************************************)
\* sync_task is inside a cycle that has not returned yet.
InCycle == taskPc = "cycle"

\* C11 as stated: a shutdown signal that arrives while the loop is inside a
\* cycle does not interrupt that cycle: once the signal is there, a cycle is
\* left only by returning to the select point.
C11_SignalNeverCutsCycle ==
    [][(InCycle /\ shutdownSent) => taskPc' \in {"cycle", "select"}]_vars

\* C11 amended: the loop does not act on a shutdown signal during a cycle.
\* It takes its shutdown branch only from the select point with the signal
\* received, the signal once broadcast stays in the receiver, and a cycle is
\* left only by its return to the select point or because main() has
\* returned, which cancels the task without the signal being observed.
C11_SignalObservedOnlyAtSelect ==
    [][/\ (taskPc' = "stopped" /\ taskPc # "stopped")
            => (taskPc = "select" /\ shutdownSent)
       /\ shutdownSent => shutdownSent'
       /\ (InCycle /\ ~InCycle')
            => \/ /\ taskPc' = "select"
                  /\ run["sync_task"].pc \in {"ok", "failed"}
               \/ /\ taskPc' = "cancelled"
                  /\ mainPc' \in {"exit_ok", "exit_err"}
                  /\ mainPc \notin {"exit_ok", "exit_err"}]_vars

\* The signal arrived during a cycle, and the loop has observed it.
C11_Witness == signalAt = "cycle" /\ taskPc = "stopped"

\* C12: a cycle whose sync_all_metrics returned an error stops neither the
\* loop nor the process: the loop goes back to its select point with main()
\* where it was, main() goes on to bind after a failed initial sync, and at
\* the select point the next tick starts a cycle again, after a failed cycle
\* as after a successful one, however many have failed before.
C12_FailedCycleKeepsLoop ==
    /\ [][/\ (InCycle /\ run["sync_task"].pc = "failed" /\ run'["sync_task"].pc = "idle")
               => (taskPc' = "select" /\ mainPc' = mainPc)
          /\ (mainPc = "in_initial_sync" /\ mainPc' # mainPc) => mainPc' = "bind"]_vars
    /\ []((lastCycleFailed /\ taskPc = "select" /\ tickReady)
             => ENABLED SyncTaskSelectTick)

\* The cycle run after a failed cycle has failed too, and the loop is about
\* to return to its select point.
C12_Witness == lastCycleFailed /\ InCycle /\ run["sync_task"].pc = "failed"

(***************************************************************************)
(* Claims about validate_corridor_filters.                                 *)
(***************************************************************************)
\* a <= b on finite numbers.
NumLe(a, b) == (a.m = b.m /\ a.e = b.e) \/ NumLt(a, b)

\* The filters of a call are valid: every supplied value is finite, the
\* success-rate values lie in [0, 100], the volume values in [0, 1e18], and
\* of each pair supplied in full the minimum does not exceed the maximum.
ValidFilters(args) ==
    /\ \A p \in FilterParams : args[p].some => is_finite(args[p].v)
    /\ \A p \in {"success_rate_min", "success_rate_max"} :
          args[p].some => (NumLe(Num(0, 0), args[p].v) /\ NumLe(args[p].v, Num(100, 0)))
    /\ \A p \in {"volume_min", "volume_max"} :
          args[p].some => (NumLe(Num(0, 0), args[p].v) /\ NumLe(args[p].v, Num(1, 18)))
    /\ (args["success_rate_min"].some /\ args["success_rate_max"].some)
          => NumLe(args["success_rate_min"].v, args["success_rate_max"].v)
    /\ (args["volume_min"].some /\ args["volume_max"].some)
          => NumLe(args["volume_min"].v, args["volume_max"].v)

\* C13: validate_corridor_filters succeeds exactly when its filters are
\* valid: every supplied value finite, success rates in [0, 100], volumes in
\* [0, 1e18], min <= max in each pair supplied in full; in particular it
\* succeeds with all four absent and with min = max.
C13_SucceedsIffValid ==
    vcall.pc = "done" => ((vcall.result.kind = "ok") <=> ValidFilters(vcall.args))

\* A call with both pairs supplied and min = max in each has succeeded.
C13_Witness ==
    /\ vcall.pc = "done" /\ vcall.result.kind = "ok"
    /\ vcall.args["success_rate_min"] = Some(Num(100, 0))
    /\ vcall.args["success_rate_max"] = Some(Num(100, 0))
    /\ vcall.args["volume_min"] = Some(Num(1, 18))
    /\ vcall.args["volume_max"] = Some(Num(1, 18))

\* The text written in a message shows the value v.
Shows(text, v) ==
    CASE v.kind = "inf" -> text \in {<<"i", "n", "f">>,
                                     <<"i", "n", "f", "i", "n", "i", "t", "y">>}
      [] OTHER -> text = DisplayF64(v)

\* C14: every validation failure carries both the name of the offending
\* parameter and its offending value: the message of a failed call names a
\* supplied parameter and shows the value supplied for it.
C14_FailureCarriesNameAndValue ==
    (vcall.pc = "done" /\ vcall.result.kind = "err")
        => \E p \in FilterParams :
              /\ vcall.args[p].some
              /\ p \in vcall.result.message.names
              /\ \E text \in vcall.result.message.values : Shows(text, vcall.args[p].v)

(***************************************************************************)
(* Claims about get_muxed_analytics.                                       *)
(***************************************************************************)
\* An address is multiplexed: it starts with 'M' and has length 69.
IsMultiplexed(a) == Len(a) = 69 /\ a[1] = "M"

\* The multiplexed addresses of the table, over sources and destinations.
MuxedAddresses ==
    {a \in {payments[i].source_account : i \in DOMAIN payments}
           \cup {payments[i].destination_account : i \in DOMAIN payments} :
        IsMultiplexed(a)}

\* The payments of the table with the address as source, as destination.
AsSource(a) == Cardinality({i \in DOMAIN payments : payments[i].source_account = a})
AsDestination(a) ==
    Cardinality({i \in DOMAIN payments : payments[i].destination_account = a})

\* The addresses listed in top_muxed_by_activity.
Listed ==
    {analytics.top_muxed_by_activity[i].account_address :
        i \in DOMAIN analytics.top_muxed_by_activity}

\* C15: every entry of top_muxed_by_activity reports the address's true
\* counts as source and as destination in the table, with total their sum,
\* and the entries are the top_n multiplexed addresses by that true total.
C15_TrueCountsAndTopN ==
    analytics.pc = "done" =>
        /\ \A i \in DOMAIN analytics.top_muxed_by_activity :
              LET e == analytics.top_muxed_by_activity[i]
              IN /\ e.payment_count_as_source = AsSource(e.account_address)
                 /\ e.payment_count_as_destination = AsDestination(e.account_address)
                 /\ e.total_payments = AsSource(e.account_address)
                                       + AsDestination(e.account_address)
        /\ Cardinality(Listed) =
              IF analytics.top_limit < Cardinality(MuxedAddresses)
              THEN analytics.top_limit ELSE Cardinality(MuxedAddresses)
        /\ \A a \in Listed, b \in MuxedAddresses \ Listed :
              AsSource(a) + AsDestination(a) >= AsSource(b) + AsDestination(b)

\* C16: top_muxed_by_activity is sorted by total descending with ties in
\* address lexical order and has at most top_n entries, so that one table
\* gives one list.
C16_SortedTiesByAddress ==
    analytics.pc = "done" =>
        /\ Len(analytics.top_muxed_by_activity) <= analytics.top_limit
        /\ \A i \in 1..(Len(analytics.top_muxed_by_activity) - 1) :
              LET e == analytics.top_muxed_by_activity[i]
                  f == analytics.top_muxed_by_activity[i + 1]
              IN \/ e.total_payments > f.total_payments
                 \/ /\ e.total_payments = f.total_payments
                    /\ StringLess(e.account_address, f.account_address)

\* C17: base_accounts_with_muxed is the set of base accounts of all the
\* multiplexed addresses of the table, whatever top_n is.
C17_BaseAccountsOfWholeTable ==
    analytics.pc = "done" =>
        {analytics.base_accounts_with_muxed[i] :
            i \in DOMAIN analytics.base_accounts_with_muxed}
        = {parse_muxed_address(a).base_account.s : a \in MuxedAddresses}

C19_JobStatusStateMachine ==
    [][\A j \in JobIds :
          /\ aggregation_jobs'[j].exists => aggregation_jobs'[j].status \in JobStatuses
          /\ (~aggregation_jobs[j].exists /\ aggregation_jobs'[j].exists)
                => aggregation_jobs'[j].status = "pending"
          /\ (aggregation_jobs[j].exists
              /\ aggregation_jobs'[j].status # aggregation_jobs[j].status)
                => <<aggregation_jobs[j].status, aggregation_jobs'[j].status>>
                      \in JobTransitions]_vars

\* A completed job has just been asked to go back to pending, and another
\* job has failed.
C19_Witness ==
    /\ aggCall.op = "status" /\ aggCall.status = "pending" /\ ~aggCall.changed
    /\ aggregation_jobs[aggCall.job_id].status = "completed"
    /\ \E j \in JobIds : aggregation_jobs[j].status = "failed"

\* C20: last_processed_hour is never rewound: an update moves the watermark
\* to last_hour only if last_hour is not before the current watermark, so
\* the stored watermark never decreases.
C20_WatermarkNonDecreasing ==
    [][\A j \in JobIds :
          /\ aggregation_jobs'[j].last_processed_hour
                >= aggregation_jobs[j].last_processed_hour
          /\ (aggCall'.op = "hour" /\ aggCall'.job_id = j /\ aggregation_jobs[j].exists)
                => aggregation_jobs'[j].last_processed_hour =
                      IF aggCall'.hour >= aggregation_jobs[j].last_processed_hour
                      THEN aggCall'.hour
                      ELSE aggregation_jobs[j].last_processed_hour]_vars

\* A job whose watermark is past hour 1 has just been given hour 1.
C20_Witness ==
    /\ aggCall.op = "hour" /\ aggCall.hour = 1 /\ ~aggCall.changed
    /\ aggregation_jobs[aggCall.job_id].exists
    /\ aggregation_jobs[aggCall.job_id].last_processed_hour > 1

\* C21: failing a job sets its status to failed and adds exactly one to its
\* retry_count with last_processed_hour as it was; no other operation
\* (start, complete) changes retry_count, and it never decreases.
C21_FailIncrementsRetryOnly ==
    [][\A j \in JobIds :
          /\ (aggCall'.op = "fail" /\ aggCall'.job_id = j)
                => /\ aggregation_jobs'[j].status = "failed"
                   /\ aggregation_jobs'[j].retry_count = aggregation_jobs[j].retry_count + 1
                   /\ aggregation_jobs'[j].last_processed_hour
                         = aggregation_jobs[j].last_processed_hour
          /\ ~(aggCall'.op = "fail" /\ aggCall'.job_id = j)
                => aggregation_jobs'[j].retry_count = aggregation_jobs[j].retry_count]_vars

\* A job has just been failed while another, completed with a watermark,
\* still has no retry.
C21_Witness ==
    /\ aggCall.op = "fail"
    /\ aggregation_jobs[aggCall.job_id].status = "failed"
    /\ aggregation_jobs[aggCall.job_id].retry_count = 1
    /\ \E j \in JobIds : /\ aggregation_jobs[j].status = "completed"
                         /\ aggregation_jobs[j].last_processed_hour > 0
                         /\ aggregation_jobs[j].retry_count = 0

(***************************************************************************)
(* Claims about hourly aggregation.                                        *)
(***************************************************************************)
\* The hour bucket lies in the range [start, end).
InRange(hour_bucket, range) == hour_bucket >= range[1] /\ hour_bucket < range[2]

\* C22: aggregation is idempotent, not additive.  The table holds at most
\* one row per (corridor_key, hour_bucket); a run of aggregate on payments
\* unchanged since the run before leaves every row of the buckets both runs
\* cover as it was (all rows, when the range is the same), and a row of the
\* range is the metric computed from the payments of its bucket.
C22_AggregateIdempotent ==
    /\ [](\A r1, r2 \in hourly_corridor_metrics :
             (r1.corridor_key = r2.corridor_key /\ r1.hour_bucket = r2.hour_bucket)
                => r1 = r2)
    /\ [][(payments' = payments /\ lastAggregate'.runs >= 1)
            => /\ \A row \in hourly_corridor_metrics' :
                     InRange(row.hour_bucket, lastAggregate'.range)
                        => row = ComputeMetric(payments, row.corridor_key, row.hour_bucket)
               /\ (lastAggregate.payments = Len(payments) /\ lastAggregate.runs >= 1)
                     => /\ \A row \in hourly_corridor_metrics :
                              (\/ InRange(row.hour_bucket, lastAggregate.range)
                               \/ ~InRange(row.hour_bucket, lastAggregate'.range))
                                 => row \in hourly_corridor_metrics'
                        /\ lastAggregate'.range = lastAggregate.range
                              => hourly_corridor_metrics' = hourly_corridor_metrics]_vars

\* aggregate has run again over the same range on unchanged payments, with a
\* row made of two payments in the table.
C22_Witness ==
    /\ lastAggregate.runs >= 2
    /\ lastAggregate.payments = Len(payments)
    /\ \E row \in hourly_corridor_metrics :
          row.tx_count = 2 /\ InRange(row.hour_bucket, lastAggregate.range)


\* The avg_settlement_time_ms column as the scorer's optional input: the
\* column holds 0 when the caller passed None.
StoredSettlement(row) ==
    IF row.avg_settlement_time_ms = 0 THEN NoneInt ELSE SomeInt(row.avg_settlement_time_ms)

StoredMetrics(row) ==
    compute_anchor_metrics(row.total_transactions, row.successful_transactions,
                           row.failed_transactions, StoredSettlement(row))

\* C23: in every reachable state the stored reliability_score and status of an
\* anchor are the scoring function of its stored counters and settlement time.
C23_ScoreDerivedFromCounters ==
    \A id \in AnchorIds :
        anchors[id].exists =>
            /\ anchors[id].reliability_score = StoredMetrics(anchors[id]).reliability_score
            /\ anchors[id].status = StoredMetrics(anchors[id]).status

UpdateAnchorMetricsOk ==
    /\ anchorCall'.op = "update_anchor_metrics"
    /\ anchorCall'.ok
    /\ anchor_metrics_history' # anchor_metrics_history

\* C24: a successful update_anchor_metrics with volume_usd = None leaves the
\* anchor's total_volume_usd as it was, and with Some(v) stores v.
C24_NoneKeepsVolume ==
    [][UpdateAnchorMetricsOk =>
          anchors'[anchorCall'.anchor_id].total_volume_usd =
              IF anchorCall'.volume_usd.some THEN anchorCall'.volume_usd.v
              ELSE anchors[anchorCall'.anchor_id].total_volume_usd]_vars

\* C25: a successful update_anchor_metrics appends exactly one history entry
\* with the call's counters and the score computed for them, and a call for
\* an id without a row fails and changes neither the anchors nor the history.
C25_OneHistoryEntryPerUpdate ==
    [][anchorCall'.op = "update_anchor_metrics" =>
          /\ (anchorCall'.ok /\ <<anchors, anchor_metrics_history, anchorCall>>'
                                   # <<anchors, anchor_metrics_history, anchorCall>>)
                => /\ Len(anchor_metrics_history') = Len(anchor_metrics_history) + 1
                   /\ SubSeq(anchor_metrics_history', 1, Len(anchor_metrics_history))
                         = anchor_metrics_history
                   /\ LET e == anchor_metrics_history'[Len(anchor_metrics_history')]
                          c == anchorCall'.counters
                      IN /\ e.anchor_id = anchorCall'.anchor_id
                         /\ <<e.total_transactions, e.successful_transactions,
                              e.failed_transactions>> = c
                         /\ e.reliability_score = anchors'[e.anchor_id].reliability_score
                         /\ \E avg \in SettlementSamples :
                               e.reliability_score =
                                  compute_anchor_metrics(c[1], c[2], c[3], avg).reliability_score
          /\ ~anchors[anchorCall'.anchor_id].exists
                => /\ ~anchorCall'.ok
                   /\ anchors' = anchors
                   /\ anchor_metrics_history' = anchor_metrics_history
          /\ ~anchorCall'.ok
                => anchor_metrics_history' = anchor_metrics_history]_vars

C25_Witness ==
    /\ anchorCall.op = "update_anchor_metrics"
    /\ anchorCall.ok
    /\ Len(anchor_metrics_history) = 2
    /\ \E id \in AnchorIds : ~anchors[id].exists


RequestedAnchors == {assetCall.anchor_ids[i] : i \in 1..Len(assetCall.anchor_ids)}

\* C26: get_assets_by_anchors of the empty list is the empty map; otherwise
\* its keys are the requested anchors that have an asset, and the list of each
\* is a result of get_assets_by_anchor for that anchor, in asset_code order.
C26_BatchRefinesSingle ==
    assetCall.op = "get_assets_by_anchors" =>
        /\ assetCall.anchor_ids = <<>> => DOMAIN assetCall.map = {}
        /\ DOMAIN assetCall.map =
              {a \in RequestedAnchors : \E r \in assets : r.anchor_id = a}
        /\ \A a \in DOMAIN assetCall.map :
              assetCall.map[a] \in get_assets_by_anchor(assets, a)

C26_Witness ==
    /\ assetCall.op = "get_assets_by_anchors"
    /\ Len(assetCall.anchor_ids) = 2
    /\ Cardinality(DOMAIN assetCall.map) = 1
    /\ \E a \in DOMAIN assetCall.map : Len(assetCall.map[a]) >= 2

\* C27: the table has at most one row per (asset_code, asset_issuer);
\* create_asset for a pair already there adds no row, keeps the row's id and
\* sets its anchor_id to the call's anchor.
C27_OneRowPerAssetPair ==
    /\ [](\A r1, r2 \in assets :
             (r1.asset_code = r2.asset_code /\ r1.asset_issuer = r2.asset_issuer)
                => r1 = r2)
    /\ [][(assetCall'.op = "create_asset" /\ assetCall'.existed)
             => /\ Cardinality(assets') = Cardinality(assets)
                /\ \E old \in assets :
                      /\ old.asset_code = assetCall'.asset.asset_code
                      /\ old.asset_issuer = assetCall'.asset.asset_issuer
                      /\ assetCall'.asset.id = old.id
                      /\ assets' = (assets \ {old}) \cup {assetCall'.asset}
                /\ assetCall'.asset.anchor_id = assetCall'.anchor_ids[1]
                /\ assetCall'.asset \in assets']_vars

C27_Witness ==
    /\ assetCall.op = "create_asset"
    /\ assetCall.existed
    /\ assetCall.asset.id = 1
    /\ Cardinality(assets) = 2
    /\ \A r \in assets : r.anchor_id = "a2"


\* C28: nothing serialises the callers of one key: each caller that missed
\* gets the value of its own producer, a write that succeeds leaves its value
\* under the key whatever was there, and only such a write changes the cache,
\* so after two misses the cache holds the value written last.
C28_ConcurrentMissesLastWriteWins ==
    /\ [](\A c \in Callers :
             (cq[c].pc = "done" /\ cq[c].got = "none" /\ cq[c].produced.kind = "ok")
                => cq[c].result = Ok(cq[c].produced.value))
    /\ [][\A c \in Callers :
             (cq[c].pc = "set" /\ cq'[c].pc = "done") =>
                IF cq'[c].setOk = "ok"
                THEN /\ \E e \in cacheStore' : e.key = cq[c].key
                     /\ \A e \in cacheStore' :
                           e.key = cq[c].key => e.value = cq[c].produced.value
                ELSE cacheStore' = cacheStore]_vars
    /\ [][cacheStore' # cacheStore =>
             \E c \in Callers :
                cq[c].pc = "set" /\ cq'[c].pc = "done" /\ cq'[c].setOk = "ok"]_vars

C28_Witness ==
    /\ \A c \in Callers :
          /\ cq[c].pc = "done" /\ cq[c].got = "none" /\ cq[c].producerCalls = 1
          /\ cq[c].setOk = "ok" /\ cq[c].result = Ok(cq[c].produced.value)
    /\ cq["c1"].key = cq["c2"].key
    /\ cq["c1"].produced.value # cq["c2"].produced.value
    /\ \E e \in cacheStore : e.key = cq["c1"].key /\ e.value = cq["c2"].produced.value

\* C29: when the producer fails on a miss the call returns the error and
\* makes no cache.set: the cache is as it was, and the next call misses too.
C29_ProducerFailureWritesNothing ==
    /\ [](\A c \in Callers :
             cq[c].produced.kind = "err" =>
                /\ cq[c].pc = "done"
                /\ cq[c].result.kind = "err"
                /\ cq[c].sets = <<>>)
    /\ [][\A c \in Callers :
             (cq[c].pc = "query" /\ cq'[c].produced.kind = "err")
                => cacheStore' = cacheStore]_vars

C29_Witness ==
    \E c \in Callers :
        /\ cq[c].pc = "done" /\ cq[c].got = "none" /\ cq[c].produced.kind = "err"
        /\ cq[c].result = Err("query")
        /\ ~\E e \in cacheStore : e.key = cq[c].key


\* C30: once the shutdown has been broadcast the loop starts no new cycle: at
\* its select point it takes the shutdown branch, a ready tick or not.
C30_NoCycleAfterShutdown ==
    [][shutdownSent => ~(taskPc = "select" /\ taskPc' = "cycle")]_vars


(***************************************************************************)
(* Claims about the shutdown of main() and of sync_task.                   *)
(***************************************************************************)
\* C31: after the shutdown has been broadcast, every started cycle returning,
\* sync_task leaves its loop and ends (or has been ended with main()).
C31_SyncTaskTerminates ==
    shutdownSent ~> (taskPc \in {"stopped", "cancelled"})

\* The task has left its loop by itself while main() still waits for it.
C31_Witness ==
    /\ taskPc = "stopped" /\ shutdownSent /\ mainPc = "step2"
    /\ run["sync_task"].pc = "idle"


\* The position of main() that follows each step of the shutdown sequence.
AfterStep ==
    [wait_signal |-> "step1", step1 |-> "step2", step2 |-> "step3",
     step3 |-> "step4", step4 |-> "exit_ok"]

\* C32: after the signal the shutdown runs its steps in order: the wait for
\* the server (left when the server stops or when the graceful timeout
\* expires), the shutdown of the background tasks, the flush of the caches,
\* the close of the database; the database is closed only after the two
\* steps before it have returned.
C32_ShutdownStepsInOrder ==
    [][mainPc' # mainPc =>
          /\ mainPc \in DOMAIN AfterStep => mainPc' = AfterStep[mainPc]
          /\ mainPc = "wait_signal" => shutdownSent'
          /\ mainPc' \in {"step2", "step3", "step4", "exit_ok"} => shutdownSent
          /\ mainPc' = "step4" => mainPc = "step3"
          /\ mainPc' = "exit_ok" => mainPc = "step4"]_vars

\* The database has been closed with the task stopped by the signal it
\* received at its select point.
C32_Witness ==
    mainPc = "exit_ok" /\ taskPc = "stopped" /\ signalAt = "select"


(***************************************************************************)
(* Claims about the API keys.                                              *)
(***************************************************************************)
\* The step is one of the calls recorded in keyCall.
KeyCallStep(op) == keyCall'.op = op /\ apiNow' = apiNow

\* C33: a revoked key stays revoked under every operation, validate_api_key
\* returns only keys that are active, and revoke_api_key of a revoked key
\* returns false and changes nothing.
C33_RevocationIrreversible ==
    /\ [][\A id \in KeyIds :
             (api_keys[id].exists /\ api_keys[id].status = "revoked")
                => /\ api_keys'[id].status = "revoked"
                   /\ api_keys'[id].key_hash = api_keys[id].key_hash]_vars
    /\ [][(KeyCallStep("validate_api_key") /\ keyCall'.key # 0)
             => /\ api_keys[keyCall'.key].status = "active"
                /\ api_keys'[keyCall'.key].status = "active"]_vars
    /\ [][(KeyCallStep("revoke_api_key") /\ api_keys[keyCall'.id].status = "revoked")
             => (~keyCall'.ok /\ api_keys' = api_keys)]_vars

\* The plain key of a revoked key without expiry has been refused.
C33_Witness ==
    /\ keyCall.op = "validate_api_key" /\ keyCall.id = 1 /\ keyCall.key = 0
    /\ api_keys[1].status = "revoked" /\ ~api_keys[1].expires_at.some
    /\ api_keys[1].last_used_at.some

\* C34: of the rotate_api_key calls made on one active key, whatever their
\* interleaving, at most one returns a new key.
C34_OneSuccessorPerKey ==
    \A c1, c2 \in Rotators :
        (c1 # c2 /\ rot[c1].pc = "done" /\ rot[c2].pc = "done" /\ rot[c1].id = rot[c2].id)
            => ~(rot[c1].key # 0 /\ rot[c2].key # 0)

\* C35: get_api_key_by_id, revoke_api_key and rotate_api_key called with a
\* wallet that does not own the key return None, false and None, and leave
\* every row as it was.
C35_ScopedToOwningWallet ==
    /\ [][\A op \in {"get_api_key_by_id", "revoke_api_key"} :
             (/\ KeyCallStep(op)
              /\ api_keys[keyCall'.id].exists
              /\ api_keys[keyCall'.id].wallet_address # keyCall'.wallet_address)
                => (keyCall'.key = 0 /\ ~keyCall'.ok /\ api_keys' = api_keys)]_vars
    /\ [][(/\ KeyCallStep("rotate_api_key")
            /\ api_keys[keyCall'.id].exists
            /\ api_keys[keyCall'.id].wallet_address # keyCall'.wallet_address)
              => (keyCall'.ok /\ keyCall'.key = 0 /\ api_keys' = api_keys)]_vars

\* A wallet has tried to revoke another wallet's active key.
C35_Witness ==
    /\ keyCall.op = "revoke_api_key" /\ ~keyCall.ok
    /\ api_keys[keyCall.id].exists /\ api_keys[keyCall.id].status = "active"
    /\ api_keys[keyCall.id].wallet_address # keyCall.wallet_address

\* C36: validate_api_key returns a key only when a row has the key's hash, is
\* active and has no expiry or one that is not in the past; it then writes
\* the row's last_used_at; when it returns None every row is as it was.
C36_ValidateReturnsLiveKeys ==
    [][KeyCallStep("validate_api_key") =>
          IF keyCall'.key # 0
          THEN LET row == api_keys[keyCall'.key]
               IN /\ row.exists
                  /\ row.key_hash = hash_api_key(keyCall'.id)
                  /\ row.status = "active"
                  /\ (~row.expires_at.some \/ row.expires_at.t >= apiNow)
                  /\ api_keys'[keyCall'.key].last_used_at = SomeInt(apiNow)
          ELSE api_keys' = api_keys]_vars


\* C37: update_ingestion_cursor(t, p) writes the row of task t and leaves the
\* row of every other task as it was (present or absent, cursor and time);
\* no step of save_payments changes an ingestion cursor or the result of a
\* cursor read.
C37_CursorFrame ==
    [][/\ now' # now =>
            \E t \in Tasks, p \in Positions :
               /\ lastSet' = [lastSet EXCEPT ![t] = SomeCursor(p)]
               /\ get_ingestion_cursor(ingestion_state', t) = SomeCursor(p)
               /\ {s \in ingestion_state' : s.task_name # t}
                     = {s \in ingestion_state : s.task_name # t}
               /\ payments' = payments
       /\ save' # save =>
            /\ ingestion_state' = ingestion_state
            /\ lastSet' = lastSet
            /\ cursorRead' = cursorRead]_vars

\* Both tasks have a cursor, the later write gave "trades" another position
\* than "payments" kept, and a save_payments has stored a record since.
C37_Witness ==
    /\ \E a, b \in ingestion_state :
          /\ a.task_name = "payments" /\ b.task_name = "trades"
          /\ a.last_cursor # b.last_cursor
          /\ a.updated_at < b.updated_at
    /\ \E q \in Procs : save[q].stored > 0

=============================================================================
